---- MODULE Spec2Model ----
(***************************************************************************)
(* Model of the NFTMarketplace contract (src/unnamed/part_000, lines       *)
(* 50-430): listings, fixed-price sales, English auctions, fee and royalty *)
(* splitting and pending-withdrawal accounting.  Every external function   *)
(* is one action; a reverting call leaves the contract state untouched and *)
(* only records its revert reason in `last`.                               *)
(***************************************************************************)
EXTENDS Integers, FiniteSets, Sequences, TLC

(* ---------------------------- bounds ---------------------------------- *)
MaxTokens == 1          \* number of items that may be minted
MaxHours == 1           \* the clock runs from 0 to MaxHours hours
MaxPending == 1000      \* cap on one account's pending withdrawal balance

(* ------------------------ program constants ---------------------------- *)
MAX_MARKETPLACE_FEE == 1000
INITIAL_FEE == 250
BPS_DENOMINATOR == 10000
HOUR == 3600
WEEK == 604800

(* ----------------------------- universe -------------------------------- *)
ZERO == "0x0"                    \* address(0)
THIS == "this"                   \* address(this), the marketplace contract
ADMIN == "admin"                 \* Ownable owner(): the deployer
USDT == "usdt"                   \* token passed to the constructor
OTHERTOKEN == "dai"              \* another token the admin may switch to
Accounts == {"admin", "alice", "bob", "carol"}
Users == Accounts \ {ADMIN}     \* the accounts that mint, trade and bid
Contracts == {"carol"}           \* accounts with code: their receive hook may revert
Hooks == {"accept", "revert", "reenter"}
PlainHooks == {"accept", "revert"}
Parties == Accounts \cup {THIS}
TokenIds == 0 .. (MaxTokens - 1)

(* inputs the callers may supply *)
\* <<price, paymentToken>> offered to listNFT
ListInputs == {<<0, ZERO>>, <<1000, ZERO>>, <<1010, USDT>>, <<1010, OTHERTOKEN>>}
\* <<startingPrice, duration, paymentToken>> offered to createAuction
AuctionInputs ==
    {<<0, HOUR, ZERO>>, <<1000, HOUR - 1, ZERO>>, <<1000, HOUR, ZERO>>,
     <<1000, WEEK + 1, ZERO>>, <<1000, HOUR, USDT>>, <<1000, HOUR, OTHERTOKEN>>}
FeeInputs == {250, 1000, 1001, 1500}
RoyaltyBpsInputs == {0, 500, 10000, 10001}
RoyaltyRecipientInputs == {ZERO, "carol"}
ValueInputs == {0, 999, 1000, 2010}

VARIABLES
    tokenIdCounter,      \* Counters.Counter _tokenIdCounter
    owners,              \* ERC721 _owners: tokenId -> owner, ZERO if not minted
    royalties,           \* ERC2981 _tokenRoyaltyInfo: tokenId -> [receiver, fraction]
    approvedNFTs,        \* mapping(uint256 => bool) approvedNFTs
    listings,            \* mapping(uint256 => Listing)
    auctions,            \* mapping(uint256 => Auction)
    pendingWithdrawals,  \* mapping(address => uint256)
    marketplaceFee,      \* basis points
    usdtToken,           \* accepted ERC20
    paused,              \* Pausable._paused
    held,                \* address(this).balance
    now,                 \* block.timestamp
    last,                \* the most recent call and its outcome
    paid,                \* native currency received (+) / spent (-) by each party in that call
    tokenPaid,           \* the same for the ERC20 of that call
    emitted,             \* events emitted by that call
    netOwed              \* per account: credited by displacement minus paid out by withdraw

ledger == <<tokenIdCounter, owners, royalties, approvedNFTs, listings, auctions,
            pendingWithdrawals, marketplaceFee, usdtToken, paused, held, netOwed>>
vars == <<tokenIdCounter, owners, royalties, approvedNFTs, listings, auctions,
          pendingWithdrawals, marketplaceFee, usdtToken, paused, held, now,
          last, paid, tokenPaid, emitted, netOwed>>

(* ------------------------- records and helpers ------------------------- *)
NoListing ==
    [seller |-> ZERO, price |-> 0, paymentToken |-> ZERO, active |-> FALSE]

NoAuction ==
    [seller |-> ZERO, startingPrice |-> 0, currentBid |-> 0, currentBidder |-> ZERO,
     paymentToken |-> ZERO, endTime |-> 0, active |-> FALSE, createdAt |-> 0]

NoRoyalty == [receiver |-> ZERO, fraction |-> 0]

NoFlow == [p \in Parties |-> 0]

\* The record of a call: the function, msg.sender, the item, msg.value, the
\* outcome ("ok" or the revert reason) and the locals of a successful call:
\*   price, other      totalPrice and seller of a sale (buyNFT, endAuction);
\*                     the displaced bid and bidder of placeBid
\*   feeAmount, royaltyAmount, sellerAmount   the split of a sale
\*   seen              the caller's pendingWithdrawals entry as stored at the
\*                     moment withdraw hands control to the recipient; for a
\*                     sale, 1 if the listing or auction sold is still stored
\*                     as active when the payments are made, else 0
Call(op, caller, id, value, result) ==
    [op |-> op, caller |-> caller, id |-> id, value |-> value, result |-> result,
     price |-> 0, other |-> ZERO, feeAmount |-> 0, royaltyAmount |-> 0,
     sellerAmount |-> 0, seen |-> 0]

\* payable(to).transfer(amount) / token.transfer: move amount between two parties
Move(flow, from, to, amount) ==
    [p \in Parties |->
        flow[p] + (IF p = to THEN amount ELSE 0) - (IF p = from THEN amount ELSE 0)]

\* a native transfer to `to` reverts when the recipient's code refuses it
Refuses(to, hook) == to \in Contracts /\ hook # "accept"

\* ERC2981.royaltyInfo(tokenId, salePrice)
royaltyInfo(tokenId, salePrice) ==
    LET r == royalties[tokenId] IN
    IF r.receiver = ZERO
    THEN [recipient |-> ZERO, amount |-> 0]
    ELSE [recipient |-> r.receiver,
          amount |-> (salePrice * r.fraction) \div BPS_DENOMINATOR]

\* the fee computation shared by buyNFT and endAuction
FeeAmount(totalPrice) == (totalPrice * marketplaceFee) \div BPS_DENOMINATOR

\* the subtraction clamped at zero instead of checked
SellerAmountClamped(tokenId, totalPrice) ==
    LET raw == totalPrice - FeeAmount(totalPrice) - royaltyInfo(tokenId, totalPrice).amount
    IN IF raw < 0 THEN 0 ELSE raw

\* sellerAmount before the checked subtraction; negative means the uint256
\* subtraction underflows and the call panics
SellerAmountRaw(tokenId, totalPrice) ==
    totalPrice - FeeAmount(totalPrice) - royaltyInfo(tokenId, totalPrice).amount

\* no call is in progress: the previous call has returned
Idle == last.op = "none"

\* the record of a completed sale of tokenId at totalPrice
SaleCall(op, caller, tokenId, value, totalPrice, seller) ==
    [Call(op, caller, tokenId, value, "ok") EXCEPT
        !.price = totalPrice,
        !.other = seller,
        !.feeAmount = FeeAmount(totalPrice),
        !.royaltyAmount = royaltyInfo(tokenId, totalPrice).amount,
        !.sellerAmount = SellerAmountRaw(tokenId, totalPrice)]

\* a failed call that keeps the native currency sent with it
RevertKeepingValue(op, caller, id, value, reason) ==
    /\ last' = Call(op, ZERO, 0, 0, reason)
    /\ paid' = NoFlow
    /\ tokenPaid' = NoFlow
    /\ emitted' = <<>>
    /\ held' = held + value
    /\ UNCHANGED <<tokenIdCounter, owners, royalties, approvedNFTs, listings, auctions,
                   pendingWithdrawals, marketplaceFee, usdtToken, paused, netOwed, now>>

\* a reverted call: nothing but the record of the call changes
\* (the record keeps the function and the revert reason, not the arguments)
Revert(op, caller, id, value, reason) ==
    /\ last' = Call(op, ZERO, 0, 0, reason)
    /\ paid' = NoFlow
    /\ tokenPaid' = NoFlow
    /\ emitted' = <<>>
    /\ UNCHANGED <<ledger, now>>

\* a successful call that moves no funds
Done(op, caller, id, value, events) ==
    /\ last' = Call(op, caller, id, value, "ok")
    /\ paid' = NoFlow
    /\ tokenPaid' = NoFlow
    /\ emitted' = events

Exists(tokenId) == tokenId \in DOMAIN owners /\ owners[tokenId] # ZERO

(* ------------------------------- Init ---------------------------------- *)
Init ==
    /\ tokenIdCounter = 0
    /\ owners = [t \in TokenIds |-> ZERO]
    /\ royalties = [t \in TokenIds |-> NoRoyalty]
    /\ approvedNFTs = [t \in TokenIds |-> FALSE]
    /\ listings = [t \in TokenIds |-> NoListing]
    /\ auctions = [t \in TokenIds |-> NoAuction]
    /\ pendingWithdrawals = [a \in Accounts |-> 0]
    /\ marketplaceFee = INITIAL_FEE
    /\ usdtToken = USDT
    /\ paused = FALSE
    /\ held = 0
    /\ now = 0
    /\ last = Call("none", ZERO, 0, 0, "ok")
    /\ paid = NoFlow
    /\ tokenPaid = NoFlow
    /\ emitted = <<>>
    /\ netOwed = [a \in Accounts |-> 0]

(* ------------------------------ mintNFT -------------------------------- *)
mintNFTError(to, royaltyRecipient, royaltyFeeNumerator, hook) ==
    IF tokenIdCounter \notin DOMAIN owners THEN "bound"
    ELSE IF to = ZERO THEN "ERC721InvalidReceiver"
    ELSE IF Refuses(to, hook) THEN "ERC721InvalidReceiver"
    ELSE IF royaltyRecipient # ZERO /\ royaltyFeeNumerator > BPS_DENOMINATOR
         THEN "ERC2981InvalidTokenRoyalty"
    ELSE "ok"

\* mintNFT without _tokenIdCounter.increment()
mintNFTNoIncrement(caller, to, royaltyRecipient, royaltyFeeNumerator, hook) ==
    /\ Idle
    /\ LET err == mintNFTError(to, royaltyRecipient, royaltyFeeNumerator, hook)
           tokenId == tokenIdCounter
       IN
       /\ err # "bound"
       /\ IF err # "ok" THEN Revert("mintNFT", caller, tokenId, 0, err)
          ELSE /\ owners' = [owners EXCEPT ![tokenId] = to]
               /\ Done("mintNFT", caller, tokenId, 0,
                       <<[name |-> "NFTMinted", id |-> tokenId, who |-> to, amount |-> 0]>>)
               /\ UNCHANGED <<tokenIdCounter, royalties, approvedNFTs, listings, auctions,
                              pendingWithdrawals, marketplaceFee, usdtToken, paused, held,
                              now, netOwed>>

mintNFT(caller, to, royaltyRecipient, royaltyFeeNumerator, hook) ==
    /\ Idle
    /\ LET err == mintNFTError(to, royaltyRecipient, royaltyFeeNumerator, hook)
           tokenId == tokenIdCounter
           setsRoyalty == royaltyRecipient # ZERO /\ royaltyFeeNumerator > 0
       IN
       /\ err # "bound"
       /\ IF err # "ok" THEN Revert("mintNFT", caller, tokenId, 0, err)
          ELSE /\ tokenIdCounter' = tokenIdCounter + 1
               /\ owners' = [owners EXCEPT ![tokenId] = to]
               /\ royalties' = [royalties EXCEPT ![tokenId] =
                      IF setsRoyalty
                      THEN [receiver |-> royaltyRecipient, fraction |-> royaltyFeeNumerator]
                      ELSE NoRoyalty]
               /\ Done("mintNFT", caller, tokenId, 0,
                       (IF setsRoyalty
                        THEN <<[name |-> "RoyaltySet", id |-> tokenId, who |-> royaltyRecipient,
                                amount |-> royaltyFeeNumerator]>>
                        ELSE <<>>)
                       \o <<[name |-> "NFTMinted", id |-> tokenId, who |-> to, amount |-> 0]>>)
               /\ UNCHANGED <<approvedNFTs, listings, auctions, pendingWithdrawals,
                              marketplaceFee, usdtToken, paused, held, now, netOwed>>

(* -------------------------- admin approval ------------------------------ *)
\* approveNFT without the onlyOwner modifier
approveNFTErrorAnyone(caller, tokenId) ==
    IF ~Exists(tokenId) THEN "Token does not exist"
    ELSE "ok"

approveNFTError(caller, tokenId) ==
    IF caller # ADMIN THEN "OwnableUnauthorizedAccount"
    ELSE IF ~Exists(tokenId) THEN "Token does not exist"
    ELSE "ok"

approveNFT(caller, tokenId, approved) ==
    /\ Idle
    /\ LET err == approveNFTError(caller, tokenId) IN
       IF err # "ok" THEN Revert("approveNFT", caller, tokenId, 0, err)
       ELSE /\ approvedNFTs' = [approvedNFTs EXCEPT ![tokenId] = approved]
            /\ Done("approveNFT", caller, tokenId, 0,
                    <<[name |-> "NFTApproved", id |-> tokenId, who |-> ZERO,
                       amount |-> IF approved THEN 1 ELSE 0]>>)
            /\ UNCHANGED <<tokenIdCounter, owners, royalties, listings, auctions,
                           pendingWithdrawals, marketplaceFee, usdtToken, paused, held,
                           now, netOwed>>

\* the arrays offered to batchApproveNFTs; MaxTokens is an id that is never minted
BatchInputs ==
    {<<>>} \cup {<<t>> : t \in TokenIds} \cup {<<t, u>> : t \in TokenIds, u \in TokenIds}
    \cup {<<t, MaxTokens>> : t \in TokenIds}

\* batchApproveNFTs checking only the first id of the array
batchApproveNFTsErrorFirstOnly(caller, tokenIds) ==
    IF caller # ADMIN THEN "OwnableUnauthorizedAccount"
    ELSE IF Len(tokenIds) > 0 /\ ~Exists(tokenIds[1]) THEN "Token does not exist"
    ELSE "ok"

batchApproveNFTsError(caller, tokenIds) ==
    IF caller # ADMIN THEN "OwnableUnauthorizedAccount"
    ELSE IF \E i \in 1 .. Len(tokenIds) : ~Exists(tokenIds[i]) THEN "Token does not exist"
    ELSE "ok"

batchApproveNFTs(caller, tokenIds, approved) ==
    /\ Idle
    /\ LET err == batchApproveNFTsError(caller, tokenIds)
           ids == {tokenIds[i] : i \in 1 .. Len(tokenIds)}
       IN
       IF err # "ok" THEN Revert("batchApproveNFTs", caller, 0, 0, err)
       ELSE /\ approvedNFTs' = [t \in TokenIds |->
                                   IF t \in ids THEN approved ELSE approvedNFTs[t]]
            /\ Done("batchApproveNFTs", caller, 0, 0,
                    [i \in 1 .. Len(tokenIds) |->
                       [name |-> "NFTApproved", id |-> tokenIds[i], who |-> ZERO,
                        amount |-> IF approved THEN 1 ELSE 0]])
            /\ UNCHANGED <<tokenIdCounter, owners, royalties, listings, auctions,
                           pendingWithdrawals, marketplaceFee, usdtToken, paused, held,
                           now, netOwed>>

(* ------------------------ fixed price listings --------------------------- *)
\* modifier onlyTokenOwner: ownerOf(tokenId) == msg.sender
onlyTokenOwnerError(caller, tokenId) ==
    IF ~Exists(tokenId) THEN "ERC721NonexistentToken"
    ELSE IF owners[tokenId] # caller THEN "Not token owner"
    ELSE "ok"

\* listNFT without the check that the item is not in auction
listNFTErrorNoAuctionCheck(caller, tokenId, price, paymentToken) ==
    IF onlyTokenOwnerError(caller, tokenId) # "ok" THEN onlyTokenOwnerError(caller, tokenId)
    ELSE IF ~approvedNFTs[tokenId] THEN "NFT not approved for marketplace"
    ELSE IF paused THEN "EnforcedPause"
    ELSE IF ~(price > 0) THEN "Price must be greater than 0"
    ELSE IF ~(paymentToken = ZERO \/ paymentToken = usdtToken) THEN "Invalid payment token"
    ELSE IF listings[tokenId].active THEN "Already listed"
    ELSE "ok"

\* listNFT without the onlyApprovedNFT modifier
listNFTErrorNoApprovalCheck(caller, tokenId, price, paymentToken) ==
    IF onlyTokenOwnerError(caller, tokenId) # "ok" THEN onlyTokenOwnerError(caller, tokenId)
    ELSE IF paused THEN "EnforcedPause"
    ELSE IF ~(price > 0) THEN "Price must be greater than 0"
    ELSE IF ~(paymentToken = ZERO \/ paymentToken = usdtToken) THEN "Invalid payment token"
    ELSE IF listings[tokenId].active THEN "Already listed"
    ELSE IF auctions[tokenId].active THEN "Token in auction"
    ELSE "ok"

listNFTError(caller, tokenId, price, paymentToken) ==
    IF onlyTokenOwnerError(caller, tokenId) # "ok" THEN onlyTokenOwnerError(caller, tokenId)
    ELSE IF ~approvedNFTs[tokenId] THEN "NFT not approved for marketplace"
    ELSE IF paused THEN "EnforcedPause"
    ELSE IF ~(price > 0) THEN "Price must be greater than 0"
    ELSE IF ~(paymentToken = ZERO \/ paymentToken = usdtToken) THEN "Invalid payment token"
    ELSE IF listings[tokenId].active THEN "Already listed"
    ELSE IF auctions[tokenId].active THEN "Token in auction"
    ELSE "ok"

listNFT(caller, tokenId, price, paymentToken) ==
    /\ Idle
    /\ LET err == listNFTError(caller, tokenId, price, paymentToken) IN
       IF err # "ok" THEN Revert("listNFT", caller, tokenId, 0, err)
       ELSE /\ listings' = [listings EXCEPT ![tokenId] =
                   [seller |-> caller, price |-> price, paymentToken |-> paymentToken,
                    active |-> TRUE]]
            /\ Done("listNFT", caller, tokenId, 0,
                    <<[name |-> "NFTListed", id |-> tokenId, who |-> caller, amount |-> price]>>)
            /\ UNCHANGED <<tokenIdCounter, owners, royalties, approvedNFTs, auctions,
                           pendingWithdrawals, marketplaceFee, usdtToken, paused, held,
                           now, netOwed>>

\* one external payment of a call in progress: st = [flow, ok]; a native payment
\* fails when the contract's balance does not cover it or the recipient refuses
PayNative(st, to, amount, hook) ==
    IF ~st.ok THEN st
    ELSE IF Refuses(to, hook) \/ held + st.flow[THIS] < amount
         THEN [st EXCEPT !.ok = FALSE]
         ELSE [flow |-> Move(st.flow, THIS, to, amount), ok |-> TRUE]

\* an ERC20 payout: the token contract decides whether it goes through
PayToken(st, to, amount, tokenOk) ==
    IF ~st.ok THEN st
    ELSE IF ~tokenOk THEN [st EXCEPT !.ok = FALSE]
         ELSE [flow |-> Move(st.flow, THIS, to, amount), ok |-> TRUE]

TokenOutcomes == {"ok", "pullFails", "payoutFails"}

\* the payouts of a sale without the transfer of the fee to the owner
SalePayoutsNoFee(st, tokenId, totalPrice, seller, hook) ==
    LET roy == royaltyInfo(tokenId, totalPrice)
        s1 == IF roy.amount > 0 /\ roy.recipient # ZERO
              THEN PayNative(st, roy.recipient, roy.amount, hook) ELSE st
    IN PayNative(s1, seller, SellerAmountRaw(tokenId, totalPrice), hook)

\* the payouts of a sale at totalPrice, in the order the code makes them:
\* royalty (if any), seller, fee recipient
SalePayouts(st, tokenId, totalPrice, seller, hook) ==
    LET roy == royaltyInfo(tokenId, totalPrice)
        s1 == IF roy.amount > 0 /\ roy.recipient # ZERO
              THEN PayNative(st, roy.recipient, roy.amount, hook) ELSE st
        s2 == PayNative(s1, seller, SellerAmountRaw(tokenId, totalPrice), hook)
    IN PayNative(s2, ADMIN, FeeAmount(totalPrice), hook)

SaleTokenPayouts(st, tokenId, totalPrice, seller, tokenOk) ==
    LET roy == royaltyInfo(tokenId, totalPrice)
        s1 == IF roy.amount > 0 /\ roy.recipient # ZERO
              THEN PayToken(st, roy.recipient, roy.amount, tokenOk) ELSE st
        s2 == PayToken(s1, seller, SellerAmountRaw(tokenId, totalPrice), tokenOk)
    IN PayToken(s2, ADMIN, FeeAmount(totalPrice), tokenOk)

\* buyNFT keeping the excess of msg.value over the price
buyNativeFlowNoRefund(caller, tokenId, value, hook) ==
    LET l == listings[tokenId]
        s0 == [flow |-> Move(NoFlow, caller, THIS, value), ok |-> TRUE]
    IN SalePayouts(s0, tokenId, l.price, l.seller, hook)

\* native branch of buyNFT: msg.value arrives first, then payouts and the refund
buyNativeFlow(caller, tokenId, value, hook) ==
    LET l == listings[tokenId]
        s0 == [flow |-> Move(NoFlow, caller, THIS, value), ok |-> TRUE]
        s1 == SalePayouts(s0, tokenId, l.price, l.seller, hook)
    IN IF value > l.price THEN PayNative(s1, caller, value - l.price, hook) ELSE s1

\* token branch of buyNFT: transferFrom(buyer, this, price), then the payouts
buyTokenFlow(caller, tokenId, token) ==
    LET l == listings[tokenId]
        s0 == [flow |-> Move(NoFlow, caller, THIS, l.price), ok |-> TRUE]
    IN SaleTokenPayouts(s0, tokenId, l.price, l.seller, token = "ok")

\* buyNFT without the check that the buyer is not the seller
buyNFTErrorNoSelfCheck(caller, tokenId, value, hook, token) ==
    LET l == listings[tokenId] IN
    IF paused THEN "EnforcedPause"
    ELSE IF ~l.active THEN "Not listed for sale"
    ELSE IF SellerAmountRaw(tokenId, l.price) < 0 THEN "Panic(0x11)"
    ELSE IF l.paymentToken = ZERO /\ ~(value >= l.price) THEN "Insufficient ETH"
    ELSE IF l.paymentToken = ZERO /\ ~buyNativeFlow(caller, tokenId, value, hook).ok
         THEN "ETH transfer failed"
    ELSE IF l.paymentToken # ZERO /\ value # 0 THEN "ETH not accepted for ERC20 payment"
    ELSE IF l.paymentToken # ZERO /\ token = "pullFails" THEN "Payment transfer failed"
    ELSE IF l.paymentToken # ZERO /\ ~buyTokenFlow(caller, tokenId, token).ok
         THEN "Token transfer failed"
    ELSE IF owners[tokenId] # l.seller THEN "ERC721IncorrectOwner"
    ELSE "ok"

\* buyNFT moving the item whoever owns it
buyNFTErrorNoOwnerCheck(caller, tokenId, value, hook, token) ==
    LET l == listings[tokenId] IN
    IF paused THEN "EnforcedPause"
    ELSE IF ~l.active THEN "Not listed for sale"
    ELSE IF l.seller = caller THEN "Cannot buy your own NFT"
    ELSE IF SellerAmountRaw(tokenId, l.price) < 0 THEN "Panic(0x11)"
    ELSE IF l.paymentToken = ZERO /\ ~(value >= l.price) THEN "Insufficient ETH"
    ELSE IF l.paymentToken = ZERO /\ ~buyNativeFlow(caller, tokenId, value, hook).ok
         THEN "ETH transfer failed"
    ELSE IF l.paymentToken # ZERO /\ value # 0 THEN "ETH not accepted for ERC20 payment"
    ELSE IF l.paymentToken # ZERO /\ token = "pullFails" THEN "Payment transfer failed"
    ELSE IF l.paymentToken # ZERO /\ ~buyTokenFlow(caller, tokenId, token).ok
         THEN "Token transfer failed"
    ELSE "ok"

buyNFTError(caller, tokenId, value, hook, token) ==
    LET l == listings[tokenId] IN
    IF paused THEN "EnforcedPause"
    ELSE IF ~l.active THEN "Not listed for sale"
    ELSE IF l.seller = caller THEN "Cannot buy your own NFT"
    ELSE IF SellerAmountRaw(tokenId, l.price) < 0 THEN "Panic(0x11)"
    ELSE IF l.paymentToken = ZERO /\ ~(value >= l.price) THEN "Insufficient ETH"
    ELSE IF l.paymentToken = ZERO /\ ~buyNativeFlow(caller, tokenId, value, hook).ok
         THEN "ETH transfer failed"
    ELSE IF l.paymentToken # ZERO /\ value # 0 THEN "ETH not accepted for ERC20 payment"
    ELSE IF l.paymentToken # ZERO /\ token = "pullFails" THEN "Payment transfer failed"
    ELSE IF l.paymentToken # ZERO /\ ~buyTokenFlow(caller, tokenId, token).ok
         THEN "Token transfer failed"
    ELSE IF owners[tokenId] # l.seller THEN "ERC721IncorrectOwner"
    ELSE "ok"

\* listings[tokenId] as stored while buyNFT makes its payments: the record is
\* deleted only after them
buyNFTListingAtPayout(tokenId) == listings[tokenId]

buyNFT(caller, tokenId, value, hook, token) ==
    /\ Idle
    /\ LET err == buyNFTError(caller, tokenId, value, hook, token)
           l == listings[tokenId]
           native == l.paymentToken = ZERO
           flow == IF native THEN buyNativeFlow(caller, tokenId, value, hook).flow
                   ELSE buyTokenFlow(caller, tokenId, token).flow
       IN
       IF err # "ok" THEN Revert("buyNFT", caller, tokenId, value, err)
       ELSE /\ paid' = IF native THEN flow ELSE NoFlow
            /\ tokenPaid' = IF native THEN NoFlow ELSE flow
            /\ held' = IF native THEN held + flow[THIS] ELSE held
            /\ owners' = [owners EXCEPT ![tokenId] = caller]
            /\ listings' = [listings EXCEPT ![tokenId] = NoListing]
            /\ last' = [SaleCall("buyNFT", caller, tokenId, value, l.price, l.seller)
                            EXCEPT !.seen =
                                IF buyNFTListingAtPayout(tokenId).active THEN 1 ELSE 0]
            /\ emitted' = <<[name |-> "NFTSold", id |-> tokenId, who |-> caller,
                             amount |-> l.price]>>
            /\ UNCHANGED <<tokenIdCounter, royalties, approvedNFTs, auctions,
                           pendingWithdrawals, marketplaceFee, usdtToken, paused, now,
                           netOwed>>

\* cancelListing authorised by the listing's recorded seller
cancelListingErrorBySeller(caller, tokenId) ==
    IF ~Exists(tokenId) THEN "ERC721NonexistentToken"
    ELSE IF listings[tokenId].active /\ listings[tokenId].seller # caller
         THEN "Not token owner"
    ELSE IF ~listings[tokenId].active THEN "Not listed"
    ELSE "ok"

\* cancelListing carrying the whenNotPaused modifier
cancelListingErrorWhenNotPaused(caller, tokenId) ==
    IF onlyTokenOwnerError(caller, tokenId) # "ok" THEN onlyTokenOwnerError(caller, tokenId)
    ELSE IF paused THEN "EnforcedPause"
    ELSE IF ~listings[tokenId].active THEN "Not listed"
    ELSE "ok"

cancelListingError(caller, tokenId) ==
    IF onlyTokenOwnerError(caller, tokenId) # "ok" THEN onlyTokenOwnerError(caller, tokenId)
    ELSE IF ~listings[tokenId].active THEN "Not listed"
    ELSE "ok"

\* the listing left in place
cancelListingKept(tokenId) == listings[tokenId]

\* delete listings[tokenId]
cancelListingCleared(tokenId) == NoListing

\* the record of a successful cancelListing keeps the seller of the listing removed
cancelListing(caller, tokenId) ==
    /\ Idle
    /\ LET err == cancelListingError(caller, tokenId) IN
       IF err # "ok" THEN Revert("cancelListing", caller, tokenId, 0, err)
       ELSE /\ listings' = [listings EXCEPT ![tokenId] = cancelListingCleared(tokenId)]
            /\ last' = [Call("cancelListing", caller, tokenId, 0, "ok") EXCEPT
                            !.other = listings[tokenId].seller]
            /\ paid' = NoFlow
            /\ tokenPaid' = NoFlow
            /\ emitted' = <<[name |-> "ListingCancelled", id |-> tokenId, who |-> caller,
                             amount |-> 0]>>
            /\ UNCHANGED <<tokenIdCounter, owners, royalties, approvedNFTs, auctions,
                           pendingWithdrawals, marketplaceFee, usdtToken, paused, held,
                           now, netOwed>>

(* ------------------------------ auctions --------------------------------- *)
\* createAuction refusing a duration of exactly 7 days
createAuctionErrorWeekExcluded(caller, tokenId, startingPrice, duration, paymentToken) ==
    IF onlyTokenOwnerError(caller, tokenId) # "ok" THEN onlyTokenOwnerError(caller, tokenId)
    ELSE IF ~approvedNFTs[tokenId] THEN "NFT not approved for marketplace"
    ELSE IF paused THEN "EnforcedPause"
    ELSE IF ~(startingPrice > 0) THEN "Starting price must be greater than 0"
    ELSE IF ~(duration >= HOUR /\ duration < WEEK) THEN "Invalid duration"
    ELSE IF ~(paymentToken = ZERO \/ paymentToken = usdtToken) THEN "Invalid payment token"
    ELSE IF listings[tokenId].active THEN "Token is listed"
    ELSE IF auctions[tokenId].active THEN "Auction already exists"
    ELSE "ok"

createAuctionError(caller, tokenId, startingPrice, duration, paymentToken) ==
    IF onlyTokenOwnerError(caller, tokenId) # "ok" THEN onlyTokenOwnerError(caller, tokenId)
    ELSE IF ~approvedNFTs[tokenId] THEN "NFT not approved for marketplace"
    ELSE IF paused THEN "EnforcedPause"
    ELSE IF ~(startingPrice > 0) THEN "Starting price must be greater than 0"
    ELSE IF ~(duration >= HOUR /\ duration <= WEEK) THEN "Invalid duration"
    ELSE IF ~(paymentToken = ZERO \/ paymentToken = usdtToken) THEN "Invalid payment token"
    ELSE IF listings[tokenId].active THEN "Token is listed"
    ELSE IF auctions[tokenId].active THEN "Auction already exists"
    ELSE "ok"

createAuction(caller, tokenId, startingPrice, duration, paymentToken) ==
    /\ Idle
    /\ LET err == createAuctionError(caller, tokenId, startingPrice, duration, paymentToken) IN
       IF err # "ok" THEN Revert("createAuction", caller, tokenId, 0, err)
       ELSE /\ auctions' = [auctions EXCEPT ![tokenId] =
                   [seller |-> caller, startingPrice |-> startingPrice, currentBid |-> 0,
                    currentBidder |-> ZERO, paymentToken |-> paymentToken,
                    endTime |-> now + duration, active |-> TRUE, createdAt |-> now]]
            /\ Done("createAuction", caller, tokenId, 0,
                    <<[name |-> "AuctionCreated", id |-> tokenId, who |-> caller,
                       amount |-> startingPrice]>>)
            /\ UNCHANGED <<tokenIdCounter, owners, royalties, approvedNFTs, listings,
                           pendingWithdrawals, marketplaceFee, usdtToken, paused, held,
                           now, netOwed>>

\* placeBid accepting a bid equal to the current bid
placeBidErrorTieAccepted(caller, tokenId, value) ==
    LET a == auctions[tokenId] IN
    IF paused THEN "EnforcedPause"
    ELSE IF ~a.active THEN "Auction not active"
    ELSE IF ~(now < a.endTime) THEN "Auction ended"
    ELSE IF caller = a.seller THEN "Cannot bid on your own auction"
    ELSE IF a.paymentToken = ZERO /\ ~(value >= a.startingPrice) THEN "Bid below starting price"
    ELSE IF a.paymentToken = ZERO /\ ~(value >= a.currentBid) THEN "Bid too low"
    ELSE IF a.paymentToken # ZERO /\ value # 0 THEN "ETH not accepted for ERC20 auction"
    ELSE IF a.paymentToken # ZERO THEN "ERC20 auctions not implemented in this version"
    ELSE "ok"

\* placeBid without the check that the auction has not reached its end time
placeBidErrorNoEndCheck(caller, tokenId, value) ==
    LET a == auctions[tokenId] IN
    IF paused THEN "EnforcedPause"
    ELSE IF ~a.active THEN "Auction not active"
    ELSE IF caller = a.seller THEN "Cannot bid on your own auction"
    ELSE IF a.paymentToken = ZERO /\ ~(value >= a.startingPrice) THEN "Bid below starting price"
    ELSE IF a.paymentToken = ZERO /\ ~(value > a.currentBid) THEN "Bid too low"
    ELSE IF a.paymentToken # ZERO /\ value # 0 THEN "ETH not accepted for ERC20 auction"
    ELSE IF a.paymentToken # ZERO THEN "ERC20 auctions not implemented in this version"
    ELSE "ok"

placeBidError(caller, tokenId, value) ==
    LET a == auctions[tokenId] IN
    IF paused THEN "EnforcedPause"
    ELSE IF ~a.active THEN "Auction not active"
    ELSE IF ~(now < a.endTime) THEN "Auction ended"
    ELSE IF caller = a.seller THEN "Cannot bid on your own auction"
    ELSE IF a.paymentToken = ZERO /\ ~(value >= a.startingPrice) THEN "Bid below starting price"
    ELSE IF a.paymentToken = ZERO /\ ~(value > a.currentBid) THEN "Bid too low"
    ELSE IF a.paymentToken # ZERO /\ value # 0 THEN "ETH not accepted for ERC20 auction"
    ELSE IF a.paymentToken # ZERO THEN "ERC20 auctions not implemented in this version"
    ELSE "ok"

\* placeBid forgetting to credit the displaced bidder
placeBidNoRefund(tokenId) == pendingWithdrawals

\* the displaced bid credited to the seller as well as to the displaced bidder
placeBidRefundBoth(tokenId) ==
    LET a == auctions[tokenId] IN
    IF a.currentBidder # ZERO /\ a.currentBidder # a.seller
    THEN [pendingWithdrawals EXCEPT ![a.currentBidder] = @ + a.currentBid,
                                    ![a.seller] = @ + a.currentBid]
    ELSE pendingWithdrawals

\* pendingWithdrawals after the displaced bidder, if any, is credited
placeBidRefund(tokenId) ==
    LET a == auctions[tokenId] IN
    IF a.currentBidder # ZERO
    THEN [pendingWithdrawals EXCEPT ![a.currentBidder] = @ + a.currentBid]
    ELSE pendingWithdrawals

placeBid(caller, tokenId, value) ==
    /\ Idle
    /\ LET err == placeBidError(caller, tokenId, value)
           a == auctions[tokenId]
       IN
       IF err # "ok" THEN Revert("placeBid", caller, tokenId, value, err)
       ELSE /\ \A x \in Accounts : placeBidRefund(tokenId)[x] <= MaxPending
            /\ pendingWithdrawals' = placeBidRefund(tokenId)
            /\ netOwed' = [x \in Accounts |->
                   netOwed[x] + (placeBidRefund(tokenId)[x] - pendingWithdrawals[x])]
            /\ auctions' = [auctions EXCEPT ![tokenId].currentBid = value,
                                            ![tokenId].currentBidder = caller]
            /\ held' = held + value
            /\ paid' = Move(NoFlow, caller, THIS, value)
            /\ tokenPaid' = NoFlow
            /\ last' = [Call("placeBid", caller, tokenId, value, "ok") EXCEPT
                            !.price = a.currentBid, !.other = a.currentBidder]
            /\ emitted' = <<[name |-> "BidPlaced", id |-> tokenId, who |-> caller,
                             amount |-> value]>>
            /\ UNCHANGED <<tokenIdCounter, owners, royalties, approvedNFTs, listings,
                           marketplaceFee, usdtToken, paused, now>>

\* the payouts of endAuction with the fee left in the contract
endAuctionFlowKeepingFee(tokenId, hook) ==
    LET a == auctions[tokenId] IN
    SalePayoutsNoFee([flow |-> NoFlow, ok |-> TRUE], tokenId, a.currentBid, a.seller,
                     hook)

\* the payouts of endAuction when there is a winning bid
endAuctionFlow(tokenId, hook) ==
    LET a == auctions[tokenId] IN
    SalePayouts([flow |-> NoFlow, ok |-> TRUE], tokenId, a.currentBid, a.seller, hook)

\* the auction only flagged inactive, its record kept
endAuctionDeactivated(tokenId) == [auctions[tokenId] EXCEPT !.active = FALSE]

\* delete auctions[tokenId]
endAuctionCleared(tokenId) == NoAuction

\* auctions[tokenId] as stored while endAuction makes its payments: active is
\* already false, the record is deleted after them
endAuctionAuctionAtPayout(tokenId) == [auctions[tokenId] EXCEPT !.active = FALSE]

endAuctionError(tokenId, hook) ==
    LET a == auctions[tokenId] IN
    IF ~a.active THEN "Auction not active"
    ELSE IF ~(now >= a.endTime) THEN "Auction not ended"
    ELSE IF a.currentBidder = ZERO THEN "ok"
    ELSE IF SellerAmountRaw(tokenId, a.currentBid) < 0 THEN "Panic(0x11)"
    ELSE IF ~endAuctionFlow(tokenId, hook).ok THEN "ETH transfer failed"
    ELSE IF owners[tokenId] # a.seller THEN "ERC721IncorrectOwner"
    ELSE "ok"

endAuction(caller, tokenId, hook) ==
    /\ Idle
    /\ LET err == endAuctionError(tokenId, hook)
           a == auctions[tokenId]
           flow == endAuctionFlow(tokenId, hook).flow
       IN
       IF err # "ok" THEN Revert("endAuction", caller, tokenId, 0, err)
       ELSE /\ auctions' = [auctions EXCEPT ![tokenId] = endAuctionCleared(tokenId)]
            /\ tokenPaid' = NoFlow
            /\ IF a.currentBidder # ZERO
               THEN /\ last' = [SaleCall("endAuction", caller, tokenId, 0,
                                         a.currentBid, a.seller)
                                EXCEPT !.seen =
                                    IF endAuctionAuctionAtPayout(tokenId).active
                                    THEN 1 ELSE 0]
                    /\ paid' = flow
                    /\ held' = held + flow[THIS]
                    /\ owners' = [owners EXCEPT ![tokenId] = a.currentBidder]
                    /\ emitted' = <<[name |-> "AuctionEnded", id |-> tokenId,
                                     who |-> a.currentBidder, amount |-> a.currentBid],
                                    [name |-> "NFTSold", id |-> tokenId,
                                     who |-> a.currentBidder, amount |-> a.currentBid]>>
               ELSE /\ last' = Call("endAuction", caller, tokenId, 0, "ok")
                    /\ paid' = NoFlow
                    /\ emitted' = <<[name |-> "AuctionEnded", id |-> tokenId,
                                     who |-> ZERO, amount |-> 0]>>
                    /\ UNCHANGED <<held, owners>>
            /\ UNCHANGED <<tokenIdCounter, royalties, approvedNFTs, listings,
                           pendingWithdrawals, marketplaceFee, usdtToken, paused, now,
                           netOwed>>

(* ------------------------------ withdraw --------------------------------- *)
\* the balance not zeroed before the payout
withdrawStorageUnzeroed(caller) == pendingWithdrawals

\* pendingWithdrawals as stored when payable(msg.sender).transfer(amount) runs
withdrawStorageAtPayout(caller) == [pendingWithdrawals EXCEPT ![caller] = 0]

withdrawError(caller, hook) ==
    LET amount == pendingWithdrawals[caller] IN
    IF ~(amount > 0) THEN "No funds to withdraw"
    ELSE IF ~PayNative([flow |-> NoFlow, ok |-> TRUE], caller, amount, hook).ok
         THEN "ETH transfer failed"
    ELSE "ok"

\* withdraw whose failed payout leaves the balance zeroed instead of reverting
withdrawLosingFunds(caller, hook) ==
    /\ Idle
    /\ LET err == withdrawError(caller, hook)
           amount == pendingWithdrawals[caller]
           seen == IF amount > 0 THEN withdrawStorageAtPayout(caller)[caller] ELSE 0
       IN
       IF err # "ok"
       THEN /\ last' = [Call("withdraw", ZERO, 0, 0, err) EXCEPT !.seen = seen]
            /\ pendingWithdrawals' =
                  IF amount > 0 THEN withdrawStorageAtPayout(caller)
                  ELSE pendingWithdrawals
            /\ paid' = NoFlow
            /\ tokenPaid' = NoFlow
            /\ emitted' = <<>>
            /\ UNCHANGED <<tokenIdCounter, owners, royalties, approvedNFTs, listings,
                           auctions, marketplaceFee, usdtToken, paused, held, netOwed,
                           now>>
       ELSE /\ pendingWithdrawals' = withdrawStorageAtPayout(caller)
            /\ held' = held - amount
            /\ netOwed' = [netOwed EXCEPT ![caller] = @ - amount]
            /\ paid' = Move(NoFlow, THIS, caller, amount)
            /\ tokenPaid' = NoFlow
            /\ last' = [Call("withdraw", caller, 0, 0, "ok") EXCEPT !.seen = seen]
            /\ emitted' = <<>>
            /\ UNCHANGED <<tokenIdCounter, owners, royalties, approvedNFTs, listings,
                           auctions, marketplaceFee, usdtToken, paused, now>>

withdraw(caller, hook) ==
    /\ Idle
    /\ LET err == withdrawError(caller, hook)
           amount == pendingWithdrawals[caller]
           seen == IF amount > 0 THEN withdrawStorageAtPayout(caller)[caller] ELSE 0
       IN
       IF err # "ok"
       THEN /\ last' = [Call("withdraw", ZERO, 0, 0, err) EXCEPT !.seen = seen]
            /\ paid' = NoFlow
            /\ tokenPaid' = NoFlow
            /\ emitted' = <<>>
            /\ UNCHANGED <<ledger, now>>
       ELSE /\ pendingWithdrawals' = withdrawStorageAtPayout(caller)
            /\ held' = held - amount
            /\ netOwed' = [netOwed EXCEPT ![caller] = @ - amount]
            /\ paid' = Move(NoFlow, THIS, caller, amount)
            /\ tokenPaid' = NoFlow
            /\ last' = [Call("withdraw", caller, 0, 0, "ok") EXCEPT !.seen = seen]
            /\ emitted' = <<>>
            /\ UNCHANGED <<tokenIdCounter, owners, royalties, approvedNFTs, listings,
                           auctions, marketplaceFee, usdtToken, paused, now>>

(* --------------------------- admin functions ----------------------------- *)
\* setMarketplaceFee refusing the maximum itself
setMarketplaceFeeErrorBelowMax(caller, fee) ==
    IF caller # ADMIN THEN "OwnableUnauthorizedAccount"
    ELSE IF ~(fee < MAX_MARKETPLACE_FEE) THEN "Fee too high"
    ELSE "ok"

setMarketplaceFeeError(caller, fee) ==
    IF caller # ADMIN THEN "OwnableUnauthorizedAccount"
    ELSE IF ~(fee <= MAX_MARKETPLACE_FEE) THEN "Fee too high"
    ELSE "ok"

setMarketplaceFee(caller, fee) ==
    /\ Idle
    /\ LET err == setMarketplaceFeeError(caller, fee) IN
       IF err # "ok" THEN Revert("setMarketplaceFee", caller, 0, 0, err)
       ELSE /\ marketplaceFee' = fee
            /\ Done("setMarketplaceFee", caller, 0, 0,
                    <<[name |-> "MarketplaceFeeUpdated", id |-> 0, who |-> ZERO,
                       amount |-> fee]>>)
            /\ UNCHANGED <<tokenIdCounter, owners, royalties, approvedNFTs, listings,
                           auctions, pendingWithdrawals, usdtToken, paused, held, now,
                           netOwed>>

setUSDTToken(caller, token) ==
    /\ Idle
    /\ IF caller # ADMIN THEN Revert("setUSDTToken", caller, 0, 0, "OwnableUnauthorizedAccount")
       ELSE /\ usdtToken' = token
            /\ Done("setUSDTToken", caller, 0, 0,
                    <<[name |-> "USDTTokenUpdated", id |-> 0, who |-> token, amount |-> 0]>>)
            /\ UNCHANGED <<tokenIdCounter, owners, royalties, approvedNFTs, listings,
                           auctions, pendingWithdrawals, marketplaceFee, paused, held, now,
                           netOwed>>

pause(caller) ==
    /\ Idle
    /\ IF caller # ADMIN THEN Revert("pause", caller, 0, 0, "OwnableUnauthorizedAccount")
       ELSE IF paused THEN Revert("pause", caller, 0, 0, "EnforcedPause")
       ELSE /\ paused' = TRUE
            /\ Done("pause", caller, 0, 0,
                    <<[name |-> "Paused", id |-> 0, who |-> caller, amount |-> 0]>>)
            /\ UNCHANGED <<tokenIdCounter, owners, royalties, approvedNFTs, listings,
                           auctions, pendingWithdrawals, marketplaceFee, usdtToken, held,
                           now, netOwed>>

unpause(caller) ==
    /\ Idle
    /\ IF caller # ADMIN THEN Revert("unpause", caller, 0, 0, "OwnableUnauthorizedAccount")
       ELSE IF ~paused THEN Revert("unpause", caller, 0, 0, "ExpectedPause")
       ELSE /\ paused' = FALSE
            /\ Done("unpause", caller, 0, 0,
                    <<[name |-> "Unpaused", id |-> 0, who |-> caller, amount |-> 0]>>)
            /\ UNCHANGED <<tokenIdCounter, owners, royalties, approvedNFTs, listings,
                           auctions, pendingWithdrawals, marketplaceFee, usdtToken, held,
                           now, netOwed>>

\* a drain that also writes off the pending withdrawal balances it takes
emergencyWithdrawWritingOff(caller, hook) ==
    /\ Idle
    /\ LET st == PayNative([flow |-> NoFlow, ok |-> TRUE], ADMIN, held, hook) IN
       IF caller # ADMIN
       THEN Revert("emergencyWithdraw", caller, 0, 0, "OwnableUnauthorizedAccount")
       ELSE IF ~st.ok THEN Revert("emergencyWithdraw", caller, 0, 0, "ETH transfer failed")
       ELSE /\ held' = held + st.flow[THIS]
            /\ pendingWithdrawals' = [x \in Accounts |-> 0]
            /\ paid' = st.flow
            /\ tokenPaid' = NoFlow
            /\ last' = Call("emergencyWithdraw", caller, 0, 0, "ok")
            /\ emitted' = <<>>
            /\ UNCHANGED <<tokenIdCounter, owners, royalties, approvedNFTs, listings,
                           auctions, marketplaceFee, usdtToken, paused,
                           now, netOwed>>

emergencyWithdraw(caller, hook) ==
    /\ Idle
    /\ LET st == PayNative([flow |-> NoFlow, ok |-> TRUE], ADMIN, held, hook) IN
       IF caller # ADMIN
       THEN Revert("emergencyWithdraw", caller, 0, 0, "OwnableUnauthorizedAccount")
       ELSE IF ~st.ok THEN Revert("emergencyWithdraw", caller, 0, 0, "ETH transfer failed")
       ELSE /\ held' = held + st.flow[THIS]
            /\ paid' = st.flow
            /\ tokenPaid' = NoFlow
            /\ last' = Call("emergencyWithdraw", caller, 0, 0, "ok")
            /\ emitted' = <<>>
            /\ UNCHANGED <<tokenIdCounter, owners, royalties, approvedNFTs, listings,
                           auctions, pendingWithdrawals, marketplaceFee, usdtToken, paused,
                           now, netOwed>>

\* the contract never keeps ERC20 units between calls, so the sweep moves nothing
emergencyWithdrawToken(caller, token) ==
    /\ Idle
    /\ IF caller # ADMIN
       THEN Revert("emergencyWithdrawToken", caller, 0, 0, "OwnableUnauthorizedAccount")
       ELSE /\ Done("emergencyWithdrawToken", caller, 0, 0, <<>>)
            /\ UNCHANGED <<ledger, now>>

(* ------------------- collaborators: registry and clock -------------------- *)
\* ERC721.transferFrom(from, to, tokenId) called by the item's owner with from = caller
transferFromError(caller, to, tokenId) ==
    IF ~Exists(tokenId) THEN "ERC721NonexistentToken"
    ELSE IF to = ZERO THEN "ERC721InvalidReceiver"
    ELSE IF owners[tokenId] # caller THEN "ERC721InsufficientApproval"
    ELSE "ok"

\* a transfer in the registry that also drops the item's listing and auction
transferFromUnlisting(caller, to, tokenId) ==
    /\ Idle
    /\ LET err == transferFromError(caller, to, tokenId) IN
       IF err # "ok" THEN Revert("transferFrom", caller, tokenId, 0, err)
       ELSE /\ owners' = [owners EXCEPT ![tokenId] = to]
            /\ listings' = [listings EXCEPT ![tokenId] = NoListing]
            /\ auctions' = [auctions EXCEPT ![tokenId] = NoAuction]
            /\ Done("transferFrom", caller, tokenId, 0,
                    <<[name |-> "Transfer", id |-> tokenId, who |-> to, amount |-> 0]>>)
            /\ UNCHANGED <<tokenIdCounter, royalties, approvedNFTs,
                           pendingWithdrawals, marketplaceFee, usdtToken, paused, held,
                           now, netOwed>>

transferFrom(caller, to, tokenId) ==
    /\ Idle
    /\ LET err == transferFromError(caller, to, tokenId) IN
       IF err # "ok" THEN Revert("transferFrom", caller, tokenId, 0, err)
       ELSE /\ owners' = [owners EXCEPT ![tokenId] = to]
            /\ Done("transferFrom", caller, tokenId, 0,
                    <<[name |-> "Transfer", id |-> tokenId, who |-> to, amount |-> 0]>>)
            /\ UNCHANGED <<tokenIdCounter, royalties, approvedNFTs, listings, auctions,
                           pendingWithdrawals, marketplaceFee, usdtToken, paused, held,
                           now, netOwed>>

\* block.timestamp advances between calls
Tick ==
    /\ Idle
    /\ now + HOUR <= MaxHours * HOUR
    /\ now' = now + HOUR
    /\ UNCHANGED <<ledger, last, paid, tokenPaid, emitted>>

\* the call returns: its record, payments and events are history
Return ==
    /\ ~Idle
    /\ last' = Call("none", ZERO, 0, 0, "ok")
    /\ paid' = NoFlow
    /\ tokenPaid' = NoFlow
    /\ emitted' = <<>>
    /\ UNCHANGED <<ledger, now>>

Next ==
    \/ \E caller \in Users, to \in Users \cup {ZERO},
          rr \in RoyaltyRecipientInputs, rf \in RoyaltyBpsInputs, hook \in PlainHooks :
          mintNFT(caller, to, rr, rf, hook)
    \/ \E caller \in Accounts, t \in TokenIds, b \in BOOLEAN : approveNFT(caller, t, b)
    \/ \E caller \in Accounts, ts \in BatchInputs, b \in BOOLEAN :
          batchApproveNFTs(caller, ts, b)
    \/ \E caller \in Users, t \in TokenIds, in \in ListInputs :
          listNFT(caller, t, in[1], in[2])
    \/ \E caller \in Users, t \in TokenIds, v \in ValueInputs, hook \in PlainHooks,
          tok \in TokenOutcomes :
          buyNFT(caller, t, v, hook, tok)
    \/ \E caller \in Users, t \in TokenIds : cancelListing(caller, t)
    \/ \E caller \in Users, t \in TokenIds, in \in AuctionInputs :
          createAuction(caller, t, in[1], in[2], in[3])
    \/ \E caller \in Users, t \in TokenIds, v \in ValueInputs : placeBid(caller, t, v)
    \/ \E caller \in Accounts, t \in TokenIds, hook \in PlainHooks :
          endAuction(caller, t, hook)
    \/ \E caller \in Users, hook \in Hooks : withdraw(caller, hook)
    \/ \E caller \in Accounts, f \in FeeInputs : setMarketplaceFee(caller, f)
    \/ \E caller \in Accounts, tok \in {USDT, OTHERTOKEN} : setUSDTToken(caller, tok)
    \/ \E caller \in Accounts : pause(caller)
    \/ \E caller \in Accounts : unpause(caller)
    \/ \E caller \in Accounts, hook \in PlainHooks : emergencyWithdraw(caller, hook)
    \/ \E caller \in Accounts, tok \in {USDT, OTHERTOKEN} :
          emergencyWithdrawToken(caller, tok)
    \/ \E caller \in Users, to \in Users \cup {ZERO}, t \in TokenIds :
          transferFrom(caller, to, t)
    \/ Tick
    \/ Return

Spec == Init /\ [][Next]_vars

(* ------------------------ bounded scenarios ------------------------------ *)
\* Next draws every input of every function; its state space is the product
\* of the trading states with every configuration the administrator can set.
\* The two scenarios below take the same actions from narrower inputs, so
\* every behaviour of either is a behaviour of Spec.

\* Trading in full under an administrator who sets the fee, pauses and
\* approves but neither replaces the payment token nor drains the contract
TradeNext ==
    \/ \E caller \in Users, to \in Users \cup {ZERO},
          rr \in RoyaltyRecipientInputs, rf \in RoyaltyBpsInputs, hook \in PlainHooks :
          mintNFT(caller, to, rr, rf, hook)
    \/ \E caller \in Accounts, t \in TokenIds, b \in BOOLEAN : approveNFT(caller, t, b)
    \/ \E caller \in Accounts, ts \in BatchInputs, b \in BOOLEAN :
          batchApproveNFTs(caller, ts, b)
    \/ \E caller \in Users, t \in TokenIds, in \in ListInputs :
          listNFT(caller, t, in[1], in[2])
    \/ \E caller \in Users, t \in TokenIds, v \in ValueInputs, hook \in PlainHooks,
          tok \in TokenOutcomes :
          buyNFT(caller, t, v, hook, tok)
    \/ \E caller \in Users, t \in TokenIds : cancelListing(caller, t)
    \/ \E caller \in Users, t \in TokenIds, in \in AuctionInputs :
          createAuction(caller, t, in[1], in[2], in[3])
    \/ \E caller \in Users, t \in TokenIds, v \in ValueInputs : placeBid(caller, t, v)
    \/ \E caller \in Accounts, t \in TokenIds, hook \in PlainHooks :
          endAuction(caller, t, hook)
    \/ \E caller \in Users, hook \in Hooks : withdraw(caller, hook)
    \/ \E caller \in Accounts, f \in FeeInputs : setMarketplaceFee(caller, f)
    \/ \E caller \in Accounts : setUSDTToken(caller, USDT)
    \/ \E caller \in Accounts : pause(caller)
    \/ \E caller \in Accounts : unpause(caller)
    \/ \E caller \in Users, hook \in PlainHooks : emergencyWithdraw(caller, hook)
    \/ \E caller \in Accounts, tok \in {USDT, OTHERTOKEN} :
          emergencyWithdrawToken(caller, tok)
    \/ \E caller \in Users, to \in Users \cup {ZERO}, t \in TokenIds :
          transferFrom(caller, to, t)
    \/ Tick
    \/ Return

TradeSpec == Init /\ [][TradeNext]_vars

\* <<price, paymentToken>> listed in the administration scenario
AdminListInputs == {<<1000, ZERO>>, <<1010, USDT>>}
\* the bids of the administration scenario
AdminBids == {1000, 2010}

\* Every operation of the administrator, by the administrator and by the
\* other accounts, over items without royalty traded at the asking price
AdminNext ==
    \/ \E to \in Users : mintNFT(to, to, ZERO, 0, "accept")
    \/ \E caller \in Accounts, t \in TokenIds, b \in BOOLEAN : approveNFT(caller, t, b)
    \/ \E caller \in Accounts, ts \in BatchInputs, b \in BOOLEAN :
          batchApproveNFTs(caller, ts, b)
    \/ \E caller \in Users, t \in TokenIds, in \in AdminListInputs :
          listNFT(caller, t, in[1], in[2])
    \/ \E caller \in Users, t \in TokenIds, v \in {0, 1000} :
          buyNFT(caller, t, v, "accept", "ok")
    \/ \E caller \in Users, t \in TokenIds : cancelListing(caller, t)
    \/ \E caller \in Users, t \in TokenIds : createAuction(caller, t, 1000, HOUR, ZERO)
    \/ \E caller \in Users, t \in TokenIds, v \in AdminBids : placeBid(caller, t, v)
    \/ \E caller \in Accounts, t \in TokenIds : endAuction(caller, t, "accept")
    \/ \E caller \in Users, hook \in Hooks : withdraw(caller, hook)
    \/ \E caller \in Accounts, f \in FeeInputs : setMarketplaceFee(caller, f)
    \/ \E caller \in Accounts, tok \in {USDT, OTHERTOKEN} : setUSDTToken(caller, tok)
    \/ \E caller \in Accounts : pause(caller)
    \/ \E caller \in Accounts : unpause(caller)
    \/ \E caller \in Accounts, hook \in PlainHooks : emergencyWithdraw(caller, hook)
    \/ \E caller \in Accounts, tok \in {USDT, OTHERTOKEN} :
          emergencyWithdrawToken(caller, tok)
    \/ Tick
    \/ Return

AdminSpec == Init /\ [][AdminNext]_vars

(* ======================= properties of the ledger ======================== *)

\* C1: in every reachable state no item has both an active listing and an
\* active auction.
MutualExclusion ==
    \A t \in TokenIds : ~(listings[t].active /\ auctions[t].active)

\* an auction was refused for an item because it is listed
MutualExclusionWitness ==
    /\ last.op = "createAuction"
    /\ last.result = "Token is listed"
    /\ \E t \in TokenIds : listings[t].active /\ ~auctions[t].active

\* a sale has just completed: buyNFT, or endAuction with a winning bidder
SaleCompleted ==
    /\ last.result = "ok"
    /\ last.op = "buyNFT" \/ (last.op = "endAuction" /\ last.other # ZERO)

\* C2: every completed sale at price P under fee rate F (0..1000 bps) with
\* royalty R from the royalty lookup has fee = floor(P*F/10000),
\* sellerAmount = P - fee - R, the three amounts add up to P and none is
\* negative; hence no sale with fee + R > P completes.
SaleSplitExact ==
    [][SaleCompleted' =>
        LET t == last'.id
            P == IF last'.op = "buyNFT" THEN listings[t].price
                 ELSE auctions[t].currentBid
            F == marketplaceFee
            R == IF royalties[t].receiver = ZERO THEN 0
                 ELSE (P * royalties[t].fraction) \div BPS_DENOMINATOR
            fee == (P * F) \div BPS_DENOMINATOR
        IN /\ F >= 0 /\ F <= MAX_MARKETPLACE_FEE
           /\ last'.price = P
           /\ last'.feeAmount = fee
           /\ last'.royaltyAmount = R
           /\ last'.sellerAmount = P - fee - R
           /\ last'.sellerAmount + last'.feeAmount + last'.royaltyAmount = P
           /\ last'.sellerAmount >= 0 /\ last'.feeAmount >= 0 /\ last'.royaltyAmount >= 0
           /\ fee + R <= P]_vars

\* the sale of the scenario: price 1000, fee 250 bps, royalty 500 bps
SaleSplitWitness ==
    /\ SaleCompleted
    /\ last.price = 1000 /\ last.feeAmount = 25 /\ last.royaltyAmount = 50
    /\ last.sellerAmount = 925

\* the net amount party p receives in a sale at price P from buyer to seller
SaleShare(p, P, fee, R, recipient, seller, buyer) ==
    (IF p = seller THEN P - fee - R ELSE 0) + (IF p = ADMIN THEN fee ELSE 0)
    + (IF p = recipient /\ R > 0 THEN R ELSE 0) - (IF p = buyer THEN P ELSE 0)

\* C3: a successful buyNFT of a listing with price P pays, in the listing's
\* currency, the royalty to its recipient, P - fee - royalty to the seller and
\* the fee to the administrator, costs the buyer exactly P whatever was
\* tendered, leaves the contract's own balance unchanged, makes the buyer the
\* owner and deletes the listing.
BuyEffects ==
    [][(last'.op = "buyNFT" /\ last'.result = "ok") =>
        LET t == last'.id
            l == listings[t]
            P == l.price
            buyer == last'.caller
            fee == (P * marketplaceFee) \div BPS_DENOMINATOR
            recipient == royalties[t].receiver
            R == IF recipient = ZERO THEN 0
                 ELSE (P * royalties[t].fraction) \div BPS_DENOMINATOR
            flow == IF l.paymentToken = ZERO THEN paid' ELSE tokenPaid'
            otherFlow == IF l.paymentToken = ZERO THEN tokenPaid' ELSE paid'
        IN /\ l.active
           /\ \A p \in Accounts :
                 flow[p] = SaleShare(p, P, fee, R, recipient, l.seller, buyer)
           /\ flow[THIS] = 0
           /\ otherFlow = NoFlow
           /\ held' = held
           /\ owners'[t] = buyer
           /\ ~listings'[t].active /\ listings'[t] = NoListing]_vars

\* a native purchase with excess tender: every role is a different account
BuyEffectsWitness ==
    /\ last.op = "buyNFT" /\ last.result = "ok"
    /\ last.value > last.price
    /\ last.royaltyAmount > 0 /\ last.feeAmount > 0
    /\ Cardinality({last.caller, last.other, ADMIN, royalties[last.id].receiver}) = 4
    /\ paid[last.caller] = 0 - last.price
    /\ paid[last.other] = last.sellerAmount

\* the tender of value by a buyer whose token pull ends as `token` matches listing l
TenderMatches(l, value, token) ==
    IF l.paymentToken = ZERO THEN value >= l.price
    ELSE value = 0 /\ token # "pullFails"

\* the outcome the claim names for buyNFT(c, t, v) when a stated condition fails
BuyOutcomeAsStated(c, t, v, h, k) ==
    LET l == listings[t]
        open == ~paused /\ l.active /\ l.seller # c
        r == buyNFTError(c, t, v, h, k)
    IN /\ (~paused /\ ~l.active) => r = "Not listed for sale"
       /\ (~paused /\ l.active /\ l.seller = c) => r = "Cannot buy your own NFT"
       /\ (open /\ l.paymentToken = ZERO /\ v < l.price) => r = "Insufficient ETH"
       /\ (open /\ l.paymentToken # ZERO /\ v # 0) =>
            r = "ETH not accepted for ERC20 payment"
       /\ (open /\ l.paymentToken # ZERO /\ v = 0 /\ k = "pullFails") =>
            r = "Payment transfer failed"
       /\ ~(l.active /\ l.seller # c /\ ~paused /\ TenderMatches(l, v, k)) => r # "ok"

\* the same with the arithmetic panic taking precedence over the tender checks
BuyOutcome(c, t, v, h, k) ==
    LET l == listings[t]
        fee == (l.price * marketplaceFee) \div BPS_DENOMINATOR
        R == IF royalties[t].receiver = ZERO THEN 0
             ELSE (l.price * royalties[t].fraction) \div BPS_DENOMINATOR
        open == ~paused /\ l.active /\ l.seller # c
        covered == fee + R <= l.price
        r == buyNFTError(c, t, v, h, k)
    IN /\ paused => r = "EnforcedPause"
       /\ (~paused /\ ~l.active) => r = "Not listed for sale"
       /\ (~paused /\ l.active /\ l.seller = c) => r = "Cannot buy your own NFT"
       /\ (open /\ ~covered) => r = "Panic(0x11)"
       /\ (open /\ covered /\ l.paymentToken = ZERO /\ v < l.price) =>
            r = "Insufficient ETH"
       /\ (open /\ covered /\ l.paymentToken # ZERO /\ v # 0) =>
            r = "ETH not accepted for ERC20 payment"
       /\ (open /\ covered /\ l.paymentToken # ZERO /\ v = 0 /\ k = "pullFails") =>
            r = "Payment transfer failed"
       /\ ~(l.active /\ l.seller # c /\ ~paused /\ TenderMatches(l, v, k)) => r # "ok"

\* a call of buyNFT reports the outcome the code computes, succeeds only with a
\* matching tender, and a failed one changes nothing
BuyStep ==
    last'.op = "buyNFT" =>
        /\ \E c \in Users, t \in TokenIds, v \in ValueInputs, h \in PlainHooks,
              k \in TokenOutcomes : last'.result = buyNFTError(c, t, v, h, k)
        /\ last'.result = "ok" =>
             LET l == listings[last'.id] IN
             /\ ~paused /\ l.active /\ l.seller # last'.caller
             /\ l.paymentToken = ZERO => last'.value >= l.price
             /\ l.paymentToken # ZERO =>
                  /\ last'.value = 0
                  /\ tokenPaid'[last'.caller] =
                        (IF royalties[last'.id].receiver = last'.caller
                         THEN last'.royaltyAmount ELSE 0) - l.price
        /\ last'.result # "ok" =>
             (UNCHANGED ledger /\ paid' = NoFlow /\ tokenPaid' = NoFlow)

\* C4 as stated: buyNFT succeeds only if the item is listed, the buyer is not
\* the seller, the contract is not paused and the tender matches the listing's
\* currency; otherwise it fails with not-listed, self-trade, insufficient
\* tender or transfer-failed respectively, and nothing changes.
BuyFailsAsStated ==
    /\ [](Idle =>
            \A c \in Users, t \in TokenIds, v \in ValueInputs, h \in PlainHooks,
               k \in TokenOutcomes : BuyOutcomeAsStated(c, t, v, h, k))
    /\ [][BuyStep]_vars

\* C4 amended: the same, except that when fee + royalty exceeds the price the
\* call fails with an arithmetic panic before the tender is examined (and with
\* EnforcedPause, before anything else, while the contract is paused).
BuyFails ==
    /\ [](Idle =>
            \A c \in Users, t \in TokenIds, v \in ValueInputs, h \in PlainHooks,
               k \in TokenOutcomes : BuyOutcome(c, t, v, h, k))
    /\ [][BuyStep]_vars

\* a purchase was refused for insufficient tender and the listing is still there
BuyFailsWitness ==
    /\ last.op = "buyNFT"
    /\ last.result = "Insufficient ETH"
    /\ \E t \in TokenIds : listings[t].active /\ owners[t] = listings[t].seller

\* C5: a bid is accepted only if the native amount tendered is at least the
\* starting price and strictly above the current highest bid; a bid equal to
\* the current bid is rejected and the highest bid of an active auction never
\* decreases.
BidsStrictlyIncrease ==
    [][/\ last'.op = "placeBid" =>
          \A c \in Users, t \in TokenIds, v \in ValueInputs :
            placeBid(c, t, v) =>
                LET a == auctions[t] IN
                /\ last'.result = "ok" =>
                     /\ a.active /\ a.paymentToken = ZERO
                     /\ v >= a.startingPrice
                     /\ v > a.currentBid
                     /\ auctions'[t].currentBid = v
                /\ (a.active /\ v = a.currentBid) => last'.result # "ok"
                /\ last'.result # "ok" => auctions' = auctions
       /\ \A t \in TokenIds :
            (auctions[t].active /\ auctions'[t].active) =>
                /\ auctions'[t].currentBid >= auctions[t].currentBid
                /\ (auctions'[t].currentBid # auctions[t].currentBid =>
                        auctions'[t].currentBid > auctions[t].currentBid)]_vars

\* a second bid was accepted above the first
BidsStrictlyIncreaseWitness ==
    /\ last.op = "placeBid" /\ last.result = "ok"
    /\ last.other # ZERO /\ last.price >= 1000 /\ last.value > last.price
    /\ auctions[last.id].currentBid = last.value

EndAuctionExactlyOnce ==
    [][last'.op = "endAuction" =>
       \A c \in Accounts, t \in TokenIds, h \in PlainHooks :
        endAuction(c, t, h) =>
            LET a == auctions[t] IN
            /\ (a.active /\ now < a.endTime) => last'.result = "Auction not ended"
            /\ (a.active /\ now >= a.endTime) =>
                 (last'.result = "ok" /\ auctions'[t] = NoAuction)
            /\ ~a.active => last'.result = "Auction not active"]_vars

\* C8: a successful endAuction with highest bidder W and bid b makes W the
\* owner, pays b - fee - royalty to the seller, the fee to the administrator
\* and the royalty to its recipient, lowers the contract's native balance by
\* exactly b and changes no pending balance.
EndAuctionSettles ==
    [][(last'.op = "endAuction" /\ last'.result = "ok"
            /\ auctions[last'.id].currentBidder # ZERO) =>
        LET t == last'.id
            a == auctions[t]
            b == a.currentBid
            fee == (b * marketplaceFee) \div BPS_DENOMINATOR
            recipient == royalties[t].receiver
            R == IF recipient = ZERO THEN 0
                 ELSE (b * royalties[t].fraction) \div BPS_DENOMINATOR
        IN /\ owners'[t] = a.currentBidder
           /\ \A p \in Parties :
                 paid'[p] = SaleShare(p, b, fee, R, recipient, a.seller, THIS)
           /\ held' = held - b
           /\ tokenPaid' = NoFlow
           /\ pendingWithdrawals' = pendingWithdrawals]_vars

\* an auction settled at 2010 with fee 250 bps and royalty 500 bps
EndAuctionSettlesWitness ==
    /\ last.op = "endAuction" /\ last.result = "ok"
    /\ last.price = 2010 /\ last.feeAmount = 50 /\ last.royaltyAmount = 100
    /\ last.sellerAmount = 1860
    /\ owners[last.id] # last.other
    /\ paid[last.other] = last.sellerAmount

\* C9: a successful endAuction on an auction without bids leaves the owner,
\* all funds and all pending balances as they were, removes the auction
\* record and emits AuctionEnded with the null winner and amount 0.
EndAuctionNoBids ==
    [][(last'.op = "endAuction" /\ last'.result = "ok"
            /\ auctions[last'.id].currentBidder = ZERO) =>
        /\ owners' = owners
        /\ paid' = NoFlow /\ tokenPaid' = NoFlow /\ held' = held
        /\ pendingWithdrawals' = pendingWithdrawals
        /\ auctions'[last'.id] = NoAuction
        /\ emitted' = <<[name |-> "AuctionEnded", id |-> last'.id, who |-> ZERO,
                         amount |-> 0]>>]_vars

\* an auction without bids was ended and its item stayed where it was
EndAuctionNoBidsWitness ==
    /\ last.op = "endAuction" /\ last.result = "ok" /\ last.other = ZERO
    /\ Len(emitted) = 1 /\ emitted[1].who = ZERO
    /\ owners[last.id] # ZERO /\ ~auctions[last.id].active

\* C10: withdraw fails when the caller's pending balance is 0; otherwise the
\* stored balance is already 0 when the payout is attempted, a successful
\* withdraw pays exactly the previous balance, and no account is ever paid
\* more by withdraw than it was credited.
WithdrawSafe ==
    [][/\ last'.op = "withdraw" =>
          \A c \in Users, h \in Hooks :
            withdraw(c, h) =>
                LET amount == pendingWithdrawals[c] IN
                /\ amount = 0 =>
                     (last'.result = "No funds to withdraw" /\ UNCHANGED ledger)
                /\ amount > 0 => last'.seen = 0
                /\ (h = "reenter" /\ c \in Contracts /\ amount > 0) =>
                     (last'.result # "ok" /\ paid' = NoFlow /\ UNCHANGED ledger)
                /\ last'.result = "ok" =>
                     /\ paid'[c] = amount /\ paid'[THIS] = 0 - amount
                     /\ pendingWithdrawals'[c] = 0
                     /\ held' = held - amount
       /\ \A x \in Accounts : netOwed'[x] >= 0]_vars

\* an outbid bidder withdrew its displaced bid
WithdrawSafeWitness ==
    /\ last.op = "withdraw" /\ last.result = "ok"
    /\ paid[last.caller] = 1000
    /\ pendingWithdrawals[last.caller] = 0 /\ netOwed[last.caller] = 0

\* endAuction reverted because the seller no longer owns the item
EndAuctionStuck ==
    /\ last.op = "endAuction" /\ last.result = "ERC721IncorrectOwner"
    /\ \E t \in TokenIds :
          /\ auctions[t].active /\ now >= auctions[t].endTime
          /\ auctions[t].currentBidder # ZERO

(* ----------------------- pending balances (C11) -------------------------- *)
RECURSIVE SumOver(_, _)
SumOver(f, S) ==
    IF S = {} THEN 0
    ELSE LET x == CHOOSE y \in S : TRUE IN f[x] + SumOver(f, S \ {x})

\* the native bid displaced by the call just made, 0 if it displaced none
DisplacedBy(call) ==
    IF call.op = "placeBid" /\ call.result = "ok" /\ call.other # ZERO
    THEN call.price ELSE 0

\* C11: every pending withdrawal balance is >= 0, and the sum of all pending
\* balances never exceeds the cumulative native amount displaced by
\* outbidding: the sum starts at 0 and no step raises it by more than the bid
\* that step displaces.
PendingWithinDisplaced ==
    /\ SumOver(pendingWithdrawals, Accounts) = 0
    /\ [](\A x \in Accounts : pendingWithdrawals[x] >= 0)
    /\ [][SumOver(pendingWithdrawals', Accounts) - SumOver(pendingWithdrawals, Accounts)
            <= DisplacedBy(last')]_vars

\* a bidder was displaced by another one and holds exactly its displaced bid
PendingWithinDisplacedWitness ==
    /\ last.op = "placeBid" /\ last.result = "ok"
    /\ last.other # ZERO /\ last.other # last.caller
    /\ pendingWithdrawals[last.other] = last.price /\ last.price > 0
    /\ SumOver(pendingWithdrawals, Accounts) = last.price

(* ------------------------ list and cancel (C12) -------------------------- *)
\* everything of the ledger except the listings
ledgerButListings ==
    <<tokenIdCounter, owners, royalties, approvedNFTs, auctions, pendingWithdrawals,
      marketplaceFee, usdtToken, paused, held, netOwed>>

\* C12: a successful listNFT on an unlisted item followed by a successful
\* cancelListing by the seller returns the item to unlisted: listNFT starts
\* from an item without active listing or auction and changes only the item's
\* listing, the seller can cancel right after listing, and that cancelListing
\* leaves the item without active listing or auction, moves no funds and
\* changes neither the owner, nor any pending balance, nor the configuration.
ListCancelRoundTrip ==
    /\ []((last.op = "listNFT" /\ last.result = "ok") =>
            /\ listings[last.id].active /\ listings[last.id].seller = last.caller
            /\ cancelListingError(last.caller, last.id) = "ok")
    /\ [][/\ (last'.op = "listNFT" /\ last'.result = "ok") =>
              /\ ~listings[last'.id].active /\ ~auctions[last'.id].active
              /\ \A t \in TokenIds \ {last'.id} : listings'[t] = listings[t]
              /\ UNCHANGED ledgerButListings
              /\ paid' = NoFlow /\ tokenPaid' = NoFlow
          /\ (last'.op = "cancelListing" /\ last'.result = "ok"
                /\ last'.caller = listings[last'.id].seller) =>
              /\ ~listings'[last'.id].active /\ ~auctions'[last'.id].active
              /\ \A t \in TokenIds \ {last'.id} : listings'[t] = listings[t]
              /\ UNCHANGED ledgerButListings
              /\ paid' = NoFlow /\ tokenPaid' = NoFlow]_vars

\* the seller cancelled its listing and still owns the unlisted item
ListCancelRoundTripWitness ==
    /\ last.op = "cancelListing" /\ last.result = "ok"
    /\ last.other = last.caller /\ owners[last.id] = last.caller
    /\ ~listings[last.id].active /\ ~auctions[last.id].active

(* --------------------------- listNFT (C13) ------------------------------- *)
\* the rejections the conditions of a listing or an auction that fail in the
\* current state answer to; EnforcedPause is the rejection of a paused ledger
OwnerApprovalRejections(caller, tokenId) ==
    (IF ~Exists(tokenId) \/ owners[tokenId] # caller
        THEN {"Not token owner", "ERC721NonexistentToken"} ELSE {})
    \cup (IF ~approvedNFTs[tokenId] THEN {"NFT not approved for marketplace"} ELSE {})
    \cup (IF paused THEN {"EnforcedPause"} ELSE {})

ListRejections(caller, tokenId, price, paymentToken) ==
    OwnerApprovalRejections(caller, tokenId)
    \cup (IF ~(price > 0) THEN {"Price must be greater than 0"} ELSE {})
    \cup (IF paymentToken # ZERO /\ paymentToken # usdtToken
             THEN {"Invalid payment token"} ELSE {})
    \cup (IF listings[tokenId].active THEN {"Already listed"} ELSE {})
    \cup (IF auctions[tokenId].active THEN {"Token in auction"} ELSE {})

\* C13: listNFT succeeds only if the caller owns the item, the item is
\* approved, price > 0, the currency is native or the configured token and the
\* item has no active listing or auction; otherwise it fails with the error
\* of a condition that does not hold and changes nothing.  On success the
\* stored listing is active with seller = caller and the given price and
\* currency.
ListChecked ==
    /\ [](Idle =>
            \A c \in Users, t \in TokenIds, in \in ListInputs :
              LET r == listNFTError(c, t, in[1], in[2])
                  rej == ListRejections(c, t, in[1], in[2])
              IN /\ rej # {} => r \in rej
                 /\ rej = {} => r = "ok")
    /\ [][last'.op = "listNFT" =>
            /\ last'.result # "ok" =>
                 (UNCHANGED ledger /\ paid' = NoFlow /\ tokenPaid' = NoFlow)
            /\ last'.result = "ok" =>
                 \E in \in ListInputs :
                    /\ listNFT(last'.caller, last'.id, in[1], in[2])
                    /\ ListRejections(last'.caller, last'.id, in[1], in[2]) = {}
                    /\ listings'[last'.id] =
                         [seller |-> last'.caller, price |-> in[1],
                          paymentToken |-> in[2], active |-> TRUE]]_vars

\* an item was listed for 1010 units of the configured token
ListCheckedWitness ==
    /\ last.op = "listNFT" /\ last.result = "ok"
    /\ listings[last.id].active /\ listings[last.id].seller = last.caller
    /\ listings[last.id].price = 1010 /\ listings[last.id].paymentToken = usdtToken

(* ------------------------ cancelListing (C14) ---------------------------- *)
NotOwnerRejections == {"Not token owner", "ERC721NonexistentToken"}

\* a successful cancelListing removes the item's listing and moves no funds
CancelStep ==
    (last'.op = "cancelListing" /\ last'.result = "ok") =>
        /\ listings[last'.id].active /\ ~listings'[last'.id].active
        /\ paid' = NoFlow /\ tokenPaid' = NoFlow /\ held' = held
        /\ pendingWithdrawals' = pendingWithdrawals

FailureIsAtomic ==
    [][(last'.op # "none" /\ last'.result # "ok") =>
          /\ UNCHANGED <<tokenIdCounter, owners, royalties, approvedNFTs, listings,
                         auctions, pendingWithdrawals, marketplaceFee, usdtToken,
                         paused, held>>
          /\ paid' = NoFlow /\ tokenPaid' = NoFlow /\ emitted' = <<>>]_vars

\* a purchase failed in one of its native payouts and the listing, the owner
\* and the contract's balance are what they were
FailureIsAtomicWitness ==
    /\ last.op = "buyNFT" /\ last.result = "ETH transfer failed"
    /\ \E t \in TokenIds :
          /\ listings[t].active /\ listings[t].paymentToken = ZERO
          /\ owners[t] = listings[t].seller
    /\ paid = NoFlow

(* ------------------------- createAuction (C16) --------------------------- *)
\* <<startingPrice, duration, paymentToken>> around both ends of the range
\* of durations
DurationInputs ==
    {<<0, WEEK, ZERO>>, <<1000, HOUR - 1, ZERO>>, <<1000, HOUR, ZERO>>,
     <<1000, WEEK, ZERO>>, <<1000, WEEK + 1, ZERO>>, <<1000, WEEK, USDT>>,
     <<1000, WEEK, OTHERTOKEN>>}
DurationBids == {1000, 2010}

\* the marketplace with auctions of every duration of DurationInputs, items
\* without royalty and recipients that accept their payments
DurationNext ==
    \/ \E to \in Users : mintNFT(to, to, ZERO, 0, "accept")
    \/ \E t \in TokenIds, b \in BOOLEAN : approveNFT(ADMIN, t, b)
    \/ \E caller \in Users, t \in TokenIds : listNFT(caller, t, 1000, ZERO)
    \/ \E caller \in Users, t \in TokenIds : cancelListing(caller, t)
    \/ \E caller \in Users, t \in TokenIds, in \in DurationInputs :
          createAuction(caller, t, in[1], in[2], in[3])
    \/ \E caller \in Users, t \in TokenIds, v \in DurationBids : placeBid(caller, t, v)
    \/ \E caller \in Users, t \in TokenIds : endAuction(caller, t, "accept")
    \/ \E caller \in Users : withdraw(caller, "accept")
    \/ \E tok \in {USDT, OTHERTOKEN} : setUSDTToken(ADMIN, tok)
    \/ pause(ADMIN)
    \/ unpause(ADMIN)
    \/ \E caller \in Users, to \in Users, t \in TokenIds : transferFrom(caller, to, t)
    \/ Tick
    \/ Return

DurationSpec == Init /\ [][DurationNext]_vars

AuctionRejections(caller, tokenId, startingPrice, duration, paymentToken) ==
    OwnerApprovalRejections(caller, tokenId)
    \cup (IF ~(startingPrice > 0) THEN {"Starting price must be greater than 0"} ELSE {})
    \cup (IF duration < HOUR \/ duration > WEEK THEN {"Invalid duration"} ELSE {})
    \cup (IF paymentToken # ZERO /\ paymentToken # usdtToken
             THEN {"Invalid payment token"} ELSE {})
    \cup (IF listings[tokenId].active THEN {"Token is listed"} ELSE {})
    \cup (IF auctions[tokenId].active THEN {"Auction already exists"} ELSE {})

\* C16: createAuction succeeds only under the owner, approval, currency and
\* mutual-exclusion conditions of listNFT plus startingPrice > 0 and
\* 1 hour <= duration <= 7 days, both ends included, and fails with the error
\* of a condition that does not hold otherwise (Invalid duration when only the
\* duration is out of range); on success the stored auction is active with
\* seller = caller, no bid, no bidder and endTime = now + duration, so
\* createdAt + 1h <= endTime <= createdAt + 7d for every active auction.
AuctionCreatedWithinRange ==
    /\ [](Idle =>
            \A c \in Users, t \in TokenIds, in \in DurationInputs :
              LET r == createAuctionError(c, t, in[1], in[2], in[3])
                  rej == AuctionRejections(c, t, in[1], in[2], in[3])
              IN /\ rej # {} => r \in rej
                 /\ rej = {} => r = "ok")
    /\ [](\A t \in TokenIds :
            auctions[t].active =>
                /\ auctions[t].createdAt + HOUR <= auctions[t].endTime
                /\ auctions[t].endTime <= auctions[t].createdAt + WEEK)
    /\ [][last'.op = "createAuction" =>
            /\ last'.result # "ok" => UNCHANGED ledger
            /\ last'.result = "ok" =>
                 \E in \in DurationInputs :
                    /\ createAuction(last'.caller, last'.id, in[1], in[2], in[3])
                    /\ AuctionRejections(last'.caller, last'.id, in[1], in[2], in[3]) = {}
                    /\ auctions'[last'.id] =
                         [seller |-> last'.caller, startingPrice |-> in[1],
                          currentBid |-> 0, currentBidder |-> ZERO,
                          paymentToken |-> in[3], endTime |-> now + in[2],
                          active |-> TRUE, createdAt |-> now]]_vars

\* an auction of exactly 7 days was created
AuctionCreatedWithinRangeWitness ==
    /\ last.op = "createAuction" /\ last.result = "ok"
    /\ auctions[last.id].active /\ auctions[last.id].seller = last.caller
    /\ auctions[last.id].endTime = auctions[last.id].createdAt + WEEK
    /\ auctions[last.id].currentBid = 0 /\ auctions[last.id].currentBidder = ZERO

(* --------------------------- placeBid (C17) ------------------------------ *)
UnsupportedRejections ==
    {"ETH not accepted for ERC20 auction",
     "ERC20 auctions not implemented in this version"}

\* the rejections the conditions the claim names answer to in the current state
BidRejections(caller, tokenId) ==
    LET a == auctions[tokenId] IN
    (IF paused THEN {"EnforcedPause"} ELSE {})
    \cup (IF ~a.active THEN {"Auction not active"} ELSE {})
    \cup (IF a.active /\ now >= a.endTime THEN {"Auction ended"} ELSE {})
    \cup (IF a.active /\ caller = a.seller THEN {"Cannot bid on your own auction"} ELSE {})
    \cup (IF a.active /\ a.paymentToken # ZERO THEN UnsupportedRejections ELSE {})

\* C17: placeBid is rejected, with the auction and all balances unchanged,
\* when the item has no active auction, when now >= endTime, when the bidder
\* is the seller and, for every amount, when the auction is denominated in
\* the token; the clock never goes back, so the highest bid and bidder of an
\* auction do not change once now >= endTime, and a token auction never has a
\* bidder and ends without winner.
BidRejected ==
    /\ [](Idle =>
            \A c \in Users, t \in TokenIds, v \in ValueInputs :
              BidRejections(c, t) # {} => placeBidError(c, t, v) \in BidRejections(c, t))
    /\ [](\A t \in TokenIds :
            (auctions[t].active /\ auctions[t].paymentToken # ZERO) =>
                (auctions[t].currentBidder = ZERO /\ auctions[t].currentBid = 0))
    /\ [][/\ now' >= now
          /\ (last'.op = "placeBid" /\ last'.result # "ok") =>
                /\ auctions' = auctions /\ held' = held
                /\ pendingWithdrawals' = pendingWithdrawals
                /\ owners' = owners
                /\ paid' = NoFlow /\ tokenPaid' = NoFlow
          /\ \A t \in TokenIds :
                (auctions[t].active /\ now >= auctions[t].endTime /\ auctions'[t].active) =>
                    /\ auctions'[t].currentBid = auctions[t].currentBid
                    /\ auctions'[t].currentBidder = auctions[t].currentBidder
          /\ \A t \in TokenIds :
                (last'.op = "endAuction" /\ last'.result = "ok" /\ last'.id = t
                    /\ auctions[t].paymentToken # ZERO) =>
                    (owners' = owners /\ last'.other = ZERO /\ paid' = NoFlow)]_vars

\* a bid on a token auction was refused and the auction has no bidder
BidRejectedWitness ==
    /\ last.op = "placeBid"
    /\ last.result = "ERC20 auctions not implemented in this version"
    /\ \E t \in TokenIds :
          /\ auctions[t].active /\ auctions[t].paymentToken # ZERO
          /\ auctions[t].currentBidder = ZERO

(* ------------------------------ pause (C18) ------------------------------ *)
\* listNFT, buyNFT, createAuction and placeBid all fail in the current state
TradingBlocked ==
    /\ \A c \in Users, t \in TokenIds, in \in ListInputs :
          listNFTError(c, t, in[1], in[2]) # "ok"
    /\ \A c \in Users, t \in TokenIds, v \in ValueInputs, h \in PlainHooks,
          k \in TokenOutcomes : buyNFTError(c, t, v, h, k) # "ok"
    /\ \A c \in Users, t \in TokenIds, in \in AuctionInputs :
          createAuctionError(c, t, in[1], in[2], in[3]) # "ok"
    /\ \A c \in Users, t \in TokenIds, v \in ValueInputs : placeBidError(c, t, v) # "ok"

\* none of the four is refused for the pause in the current state
TradingOpen ==
    /\ \A c \in Users, t \in TokenIds, in \in ListInputs :
          listNFTError(c, t, in[1], in[2]) # "EnforcedPause"
    /\ \A c \in Users, t \in TokenIds, v \in ValueInputs, h \in PlainHooks,
          k \in TokenOutcomes : buyNFTError(c, t, v, h, k) # "EnforcedPause"
    /\ \A c \in Users, t \in TokenIds, in \in AuctionInputs :
          createAuctionError(c, t, in[1], in[2], in[3]) # "EnforcedPause"
    /\ \A c \in Users, t \in TokenIds, v \in ValueInputs :
          placeBidError(c, t, v) # "EnforcedPause"

\* cancelListing, endAuction and withdraw have the same outcome for every
\* input after the step as before it
ExitsUnaffected ==
    /\ \A c \in Users, t \in TokenIds :
          cancelListingError(c, t)' = cancelListingError(c, t)
    /\ \A t \in TokenIds, h \in PlainHooks : endAuctionError(t, h)' = endAuctionError(t, h)
    /\ \A c \in Users, h \in Hooks : withdrawError(c, h)' = withdrawError(c, h)

\* C18: while paused, listNFT, buyNFT, createAuction and placeBid always fail
\* and change nothing; pausing and unpausing change the outcome of no
\* cancelListing, endAuction or withdraw, which therefore succeed paused
\* exactly when they would unpaused; once unpaused the four are no longer
\* refused for the pause.
PauseBlocksTradingOnly ==
    /\ [](Idle => IF paused THEN TradingBlocked ELSE TradingOpen)
    /\ [][/\ (paused /\ last'.op \in {"listNFT", "buyNFT", "createAuction", "placeBid"}) =>
                /\ last'.result # "ok"
                /\ UNCHANGED ledger /\ paid' = NoFlow /\ tokenPaid' = NoFlow
          /\ (last'.op \in {"pause", "unpause"} /\ last'.result = "ok") =>
                /\ paused' = (last'.op = "pause")
                /\ paused' # paused
                /\ ExitsUnaffected]_vars

\* a listing was cancelled while the ledger was paused
PauseBlocksTradingOnlyWitness ==
    /\ paused
    /\ last.op = "cancelListing" /\ last.result = "ok"
    /\ ~listings[last.id].active

(* ------------------------- fee ceiling (C19) ----------------------------- *)
\* C19: setMarketplaceFee(bps) by the administrator fails with Fee too high
\* and leaves the rate unchanged when bps > 1000, and sets the rate to bps
\* when bps <= 1000, 1000 included; the rate starts at 250 and is at most
\* 1000 in every reachable state.
FeeWithinCeiling ==
    /\ marketplaceFee = 250
    /\ [](marketplaceFee >= 0 /\ marketplaceFee <= 1000)
    /\ [](Idle =>
            \A f \in FeeInputs :
              /\ f > 1000 => setMarketplaceFeeError(ADMIN, f) = "Fee too high"
              /\ f <= 1000 => setMarketplaceFeeError(ADMIN, f) = "ok")
    /\ [][last'.op = "setMarketplaceFee" =>
            /\ last'.result # "ok" => marketplaceFee' = marketplaceFee
            /\ last'.result = "ok" =>
                 \E f \in FeeInputs :
                    /\ setMarketplaceFee(ADMIN, f)
                    /\ f <= 1000 /\ marketplaceFee' = f]_vars

\* the administrator set the rate to the ceiling
FeeWithinCeilingWitness ==
    /\ last.op = "setMarketplaceFee" /\ last.result = "ok"
    /\ last.caller = ADMIN /\ marketplaceFee = MAX_MARKETPLACE_FEE

(* ----------------------- admin operations (C20) -------------------------- *)
AdminOps ==
    {"setMarketplaceFee", "setUSDTToken", "approveNFT", "batchApproveNFTs", "pause",
     "unpause", "emergencyWithdraw", "emergencyWithdrawToken"}

\* a step that is the call of an admin operation by an account other than the
\* administrator
CalledByOther ==
    \E c \in Users :
        \/ \E f \in FeeInputs : setMarketplaceFee(c, f)
        \/ \E tok \in {USDT, OTHERTOKEN} : setUSDTToken(c, tok)
        \/ \E t \in TokenIds, b \in BOOLEAN : approveNFT(c, t, b)
        \/ \E ts \in BatchInputs, b \in BOOLEAN : batchApproveNFTs(c, ts, b)
        \/ pause(c)
        \/ unpause(c)
        \/ \E h \in PlainHooks : emergencyWithdraw(c, h)
        \/ \E tok \in {USDT, OTHERTOKEN} : emergencyWithdrawToken(c, tok)

\* C20: every admin operation invoked by an account other than the
\* administrator fails with OwnableUnauthorizedAccount and changes nothing;
\* so no admin operation succeeds for another caller, and the fee rate, the
\* payment token, the pause flag and the approval flags change only in
\* successful calls of the administrator.
AdminOnly ==
    /\ [](Idle =>
            \A c \in Users :
              /\ \A f \in FeeInputs :
                    setMarketplaceFeeError(c, f) = "OwnableUnauthorizedAccount"
              /\ \A t \in TokenIds : approveNFTError(c, t) = "OwnableUnauthorizedAccount"
              /\ \A ts \in BatchInputs :
                    batchApproveNFTsError(c, ts) = "OwnableUnauthorizedAccount")
    /\ [][/\ (last'.op \in AdminOps /\ CalledByOther) =>
                /\ last'.result = "OwnableUnauthorizedAccount"
                /\ UNCHANGED ledger /\ paid' = NoFlow /\ tokenPaid' = NoFlow
          /\ (last'.op \in AdminOps /\ last'.result = "ok") => last'.caller = ADMIN
          /\ (marketplaceFee' # marketplaceFee \/ usdtToken' # usdtToken
                \/ paused' # paused \/ approvedNFTs' # approvedNFTs) =>
                (last'.op \in AdminOps /\ last'.result = "ok" /\ last'.caller = ADMIN)]_vars

\* an account other than the administrator tried to replace the payment token
AdminOnlyWitness ==
    /\ last.op = "setUSDTToken" /\ last.result = "OwnableUnauthorizedAccount"
    /\ usdtToken = USDT /\ marketplaceFee = INITIAL_FEE

MaxMinted == 3
MintIds == 0 .. (MaxMinted - 1)

\* the state after construction with room for MaxMinted items
MintInit ==
    /\ tokenIdCounter = 0
    /\ owners = [t \in MintIds |-> ZERO]
    /\ royalties = [t \in MintIds |-> NoRoyalty]
    /\ approvedNFTs = [t \in MintIds |-> FALSE]
    /\ listings = [t \in MintIds |-> NoListing]
    /\ auctions = [t \in MintIds |-> NoAuction]
    /\ pendingWithdrawals = [a \in Accounts |-> 0]
    /\ marketplaceFee = INITIAL_FEE
    /\ usdtToken = USDT
    /\ paused = FALSE
    /\ held = 0
    /\ now = 0
    /\ last = Call("none", ZERO, 0, 0, "ok")
    /\ paid = NoFlow
    /\ tokenPaid = NoFlow
    /\ emitted = <<>>
    /\ netOwed = [a \in Accounts |-> 0]

\* minting and moving items: the operations that touch the ownership registry
MintNext ==
    \/ \E caller \in Users, to \in Users \cup {ZERO}, rr \in RoyaltyRecipientInputs,
          rf \in {0, 500}, hook \in PlainHooks :
          mintNFT(caller, to, rr, rf, hook)
    \/ \E caller \in Users, to \in Users \cup {ZERO}, t \in MintIds :
          transferFrom(caller, to, t)
    \/ Return

MintSpec == MintInit /\ [][MintNext]_vars

\* the items that exist
Minted == {t \in DOMAIN owners : owners[t] # ZERO}

\* C22: ids are assigned in order: the n-th successful mintNFT creates item n
\* owned by the given recipient, the counter read by getCurrentTokenId equals
\* the number of items minted so far, the items that exist are exactly those
\* below the counter, no id is assigned twice and an item, once minted, always
\* has an owner.
IdsAssignedInOrder ==
    /\ [](/\ Minted = {t \in DOMAIN owners : t < tokenIdCounter}
          /\ Cardinality(Minted) = tokenIdCounter)
    /\ [][/\ (last'.op = "mintNFT" /\ last'.result = "ok") =>
                /\ last'.id = tokenIdCounter /\ last'.id = Cardinality(Minted)
                /\ owners[last'.id] = ZERO
                /\ owners'[last'.id] = emitted'[Len(emitted')].who
                /\ owners'[last'.id] # ZERO
                /\ tokenIdCounter' = tokenIdCounter + 1
                /\ \A t \in DOMAIN owners \ {last'.id} : owners'[t] = owners[t]
          /\ (last'.op = "mintNFT" /\ last'.result # "ok") =>
                (tokenIdCounter' = tokenIdCounter /\ owners' = owners)
          /\ tokenIdCounter' >= tokenIdCounter
          /\ Minted \subseteq {t \in DOMAIN owners : owners'[t] # ZERO}]_vars

\* the third item, id 2, was minted to its recipient after items 0 and 1
IdsAssignedInOrderWitness ==
    /\ last.op = "mintNFT" /\ last.result = "ok"
    /\ last.id = 2 /\ tokenIdCounter = 3
    /\ owners[2] = emitted[Len(emitted)].who
    /\ Minted = {0, 1, 2}

(* ------------------- order of effects and payments (C23) ----------------- *)
\* C23: in buyNFT the listing, and in endAuction the auction, is deactivated
\* or deleted before the first external payment is attempted, so whoever gains
\* control during a payout of a sale finds the record sold already inactive.
RecordsClearedBeforePayout ==
    [][/\ (last'.op = "buyNFT" /\ last'.result = "ok") => last'.seen = 0
       /\ (last'.op = "endAuction" /\ last'.result = "ok" /\ last'.other # ZERO) =>
             last'.seen = 0]_vars

\* an auction was settled: its record was inactive while the payments were made
AuctionClearedBeforePayout ==
    /\ last.op = "endAuction" /\ last.result = "ok" /\ last.other # ZERO
    /\ last.seen = 0 /\ paid[last.other] = last.sellerAmount

(* -------------------- failed payout of withdraw (C24) -------------------- *)
\* a withdraw whose payout failed
WithdrawPayoutFailed == last'.op = "withdraw" /\ last'.result = "ETH transfer failed"

\* C24 as stated: when the payout of withdraw fails after the balance was
\* zeroed, the caller's pending balance is 0 afterwards and the amount is no
\* longer owed.
WithdrawFailureLosesFunds ==
    [][WithdrawPayoutFailed =>
         \A c \in Users, h \in Hooks :
            withdraw(c, h) =>
               /\ pendingWithdrawals'[c] = 0
               /\ SumOver(pendingWithdrawals', Accounts) <
                     SumOver(pendingWithdrawals, Accounts)]_vars

\* C24: when the payout of withdraw fails, the balance had been zeroed in
\* storage when the payout was attempted, but the failure undoes the whole
\* call: the caller's pending balance is afterwards the positive amount it was
\* before, nothing was paid, and ledger and held funds are unchanged, so the
\* amount is still owed and a later withdraw can collect it.
WithdrawFailureRestores ==
    [][WithdrawPayoutFailed =>
         \A c \in Users, h \in Hooks :
            withdraw(c, h) =>
               /\ last'.seen = 0
               /\ pendingWithdrawals[c] > 0
               /\ pendingWithdrawals'[c] = pendingWithdrawals[c]
               /\ paid' = NoFlow
               /\ UNCHANGED ledger]_vars

\* the payout to an account that is owed a displaced bid failed, and the
\* account is still owed it
WithdrawFailureRestoresWitness ==
    /\ last.op = "withdraw" /\ last.result = "ETH transfer failed" /\ last.seen = 0
    /\ \E c \in Contracts : pendingWithdrawals[c] = 1000 /\ netOwed[c] = 1000

(* ------------------------- item lifecycle (C25) -------------------------- *)
\* the call just made is a successful op on item t
Succeeded(ops, t) == last'.op \in ops /\ last'.result = "ok" /\ last'.id = t

EmergencyDrainTakesAll ==
    [][(last'.op = "emergencyWithdraw" /\ last'.result = "ok") =>
         /\ last'.caller = ADMIN
         /\ paid' = Move(NoFlow, THIS, ADMIN, held)
         /\ held' = 0
         /\ UNCHANGED <<tokenIdCounter, owners, royalties, approvedNFTs, listings,
                        auctions, pendingWithdrawals, marketplaceFee, usdtToken,
                        paused>>]_vars

\* the drain took the highest bid of an active auction and a displaced bid
\* still pending
EmergencyDrainTakesAllWitness ==
    /\ last.op = "emergencyWithdraw" /\ last.result = "ok"
    /\ paid[ADMIN] = 3010 /\ held = 0
    /\ \E t \in TokenIds : auctions[t].active /\ auctions[t].currentBid = 2010
    /\ \E x \in Accounts : pendingWithdrawals[x] = 1000

(* ----------------------------- solvency (C27) ---------------------------- *)
\* the highest bid the contract holds for item t
ActiveBid ==
    [t \in TokenIds |->
        IF auctions[t].active /\ auctions[t].paymentToken = ZERO
        THEN auctions[t].currentBid ELSE 0]

\* what the contract owes: the highest bids of the active native auctions and
\* the pending withdrawal balances
Backing == SumOver(ActiveBid, TokenIds) + SumOver(pendingWithdrawals, Accounts)

Solvent == held = Backing

\* C27: in every state reached while the administrator does not drain the
\* contract, the native balance held equals the highest bids of the active
\* native auctions plus all pending withdrawal balances; hence a withdraw of a
\* positive balance by an accepting recipient succeeds and the settlement of
\* an ended auction does not fail for lack of funds.
SolventUnlessDrained ==
    /\ Solvent
    /\ Idle =>
          /\ \A c \in Users :
                pendingWithdrawals[c] > 0 => withdrawError(c, "accept") = "ok"
          /\ \A t \in TokenIds :
                endAuctionError(t, "accept") # "ETH transfer failed"

\* the contract holds a highest bid and a displaced bid, and exactly those
SolventUnlessDrainedWitness ==
    /\ held = 3010 /\ Solvent /\ Idle
    /\ \E t \in TokenIds : auctions[t].active /\ auctions[t].currentBid = 2010
                           /\ now >= auctions[t].endTime
    /\ \E x \in Users : pendingWithdrawals[x] = 1000

(* ------------------------ seller and owner (C28) ------------------------- *)
\* C28: in every reachable state the recorded seller of every active listing
\* and of every active auction is the current owner of the item.
SellerIsOwner ==
    \A t \in TokenIds :
        /\ listings[t].active => listings[t].seller = owners[t]
        /\ auctions[t].active => auctions[t].seller = owners[t]

\* the seller of an active listing gave the item away in the registry
ListingOutlivesOwnership ==
    /\ last.op = "transferFrom" /\ last.result = "ok"
    /\ listings[last.id].active /\ listings[last.id].seller # owners[last.id]

(* --------------------- settlement can happen (C29) ----------------------- *)
\* C29: whenever an auction is active and its end time has come, endAuction
\* succeeds if the recipients accept funds, also after the seller transferred
\* the item away; here even granted that the contract holds what it owes and
\* that fee and royalty do not exceed the bid.
SettlementAlwaysPossible ==
    (Idle /\ Solvent) =>
        \A t \in TokenIds :
            (/\ auctions[t].active
             /\ now >= auctions[t].endTime
             /\ SellerAmountRaw(t, auctions[t].currentBid) >= 0) =>
                endAuctionError(t, "accept") = "ok"

(* ------------------------- stale listings (C30) -------------------------- *)
\* the listing of item t is active but its seller no longer owns the item
Stale(t) == listings[t].active /\ owners[t] # listings[t].seller

\* C30: while the seller of an active listing does not own the item, every
\* buyNFT of it fails; a failed buyNFT pays nobody and changes neither
\* ownership nor any other state; and an item changes owner only by being
\* minted, by its owner transferring it, or by a successful buyNFT or
\* endAuction that takes it from the recorded seller, who owned it, to the
\* buyer or the highest bidder.
StaleListingUnsellable ==
    /\ [](Idle =>
            \A t \in TokenIds : Stale(t) =>
                \A c \in Users, v \in ValueInputs, h \in PlainHooks, tok \in TokenOutcomes :
                    buyNFTError(c, t, v, h, tok) # "ok")
    /\ [][/\ (last'.op = "buyNFT" /\ last'.result # "ok") =>
                (paid' = NoFlow /\ tokenPaid' = NoFlow /\ UNCHANGED ledger)
          /\ \A t \in TokenIds : owners'[t] # owners[t] =>
                /\ last'.result = "ok"
                /\ \/ last'.op = "mintNFT" /\ owners[t] = ZERO
                   \/ last'.op = "transferFrom" /\ last'.id = t
                        /\ last'.caller = owners[t]
                   \/ last'.op = "buyNFT" /\ last'.id = t
                        /\ last'.other = owners[t] /\ listings[t].seller = owners[t]
                        /\ owners'[t] = last'.caller
                   \/ last'.op = "endAuction" /\ last'.id = t
                        /\ last'.other = owners[t] /\ auctions[t].seller = owners[t]
                        /\ owners'[t] = auctions[t].currentBidder]_vars

\* a buyer paid enough for a listing whose seller had given the item away,
\* and the purchase was refused
StaleListingUnsellableWitness ==
    /\ last.op = "buyNFT" /\ last.result = "ERC721IncorrectOwner"
    /\ paid = NoFlow /\ held = 0
    /\ \E t \in TokenIds : Stale(t) /\ listings[t].paymentToken = ZERO
====
